---- MODULE Spec2Model ----
(***************************************************************************)
(* Attribution pipeline: the Journey Assembler (build_customer_journeys,   *)
(* format_sessions_for_api), the Journey Batcher (chunk_journeys), the     *)
(* Journey Validator (validate_journey_data) and the sender loop           *)
(* (send_journeys_to_api with IHCApiClient.compute_ihc).                   *)
(*                                                                         *)
(* Each component has its own specification (Spec, SpecChunk,              *)
(* SpecValidate, SpecSend).  A specification draws the component's inputs  *)
(* in its initial states and then steps through the component's code; the  *)
(* variables of the other components stay at their idle values.            *)
(***************************************************************************)
EXTENDS Integers, Sequences, FiniteSets, TLC

(***************************************************************************)
(* Bounds of the model.                                                    *)
(***************************************************************************)
\* at most NConv rows in the conversions table handed to the Assembler
NConv == 3
\* at most NSess rows in session_sources
NSess == 3
\* timestamps are the instants 0..MaxTime
MaxTime == 2

\* at most MaxRecords journey records handed to the Batcher
MaxRecords == 6
\* max_journeys_per_chunk is drawn from 1..MaxJourneysLimit
MaxJourneysLimit == 3
\* max_sessions_per_chunk is drawn from 1..MaxSessionsLimit
MaxSessionsLimit == 4

\* at most MaxValRecords records handed to validate_journey_data
MaxValRecords == 3

\* at most MaxChunks chunks handed to send_journeys_to_api
MaxChunks == 2
\* API_MAX_RETRIES is drawn from 0..MaxRetries (3 when the environment sets none)
MaxRetries == 3

\* at most MaxInsertRows results in one call of insert_attribution_results
MaxInsertRows == 2
\* at most MaxInsertCalls calls of insert_attribution_results
MaxInsertCalls == 2

\* at most MaxPipelineConvs conversions in the date range of a pipeline run
MaxPipelineConvs == 3

\* at most MaxReportRows rows of channel_reporting in the exported date range
MaxReportRows == 2
\* cost, ihc and ihc_revenue of a report row are amounts up to MaxAmount
MaxAmount == 2
\* at most MaxRuns runs of the pipeline over one database
MaxRuns == 2

\* users owning conversions and sessions
Users == {"u1", "u2"}

(***************************************************************************)
(* Timestamps.  A timestamp string (conv_date + ' ' + conv_time, or        *)
(* event_date + ' ' + event_time) is [t, form]:                            *)
(*   canon  'YYYY-MM-DD HH:MM:SS', zero padded: datetime.strptime and      *)
(*          pd.to_datetime both read instant t;                            *)
(*   unpadded  the same fields without a leading zero ('2024-01-10         *)
(*          9:05:00'): both read instant t as well;                        *)
(*   loose  a string pandas reads as instant t and strptime rejects, e.g.  *)
(*          the seconds are missing ('2024-01-10 12:00');                  *)
(*   bad    a string neither reads ('n/a'); its t is 0 by convention.      *)
(***************************************************************************)
Canon(t) == [t |-> t, form |-> "canon"]
Unpadded(t) == [t |-> t, form |-> "unpadded"]
Loose(t) == [t |-> t, form |-> "loose"]
BadStamp == [t |-> 0, form |-> "bad"]

\* datetime.strptime(ts, '%Y-%m-%d %H:%M:%S') succeeds
validate_timestamp(ts) == ts.form \in {"canon", "unpadded"}

\* the instant datetime.strptime reads; -1 stands for ValueError
strptime(ts) == IF ts.form \in {"canon", "unpadded"} THEN ts.t ELSE -1

\* the instant pd.to_datetime reads; -1 stands for the parse error
to_datetime(ts) == IF ts.form \in {"canon", "unpadded", "loose"} THEN ts.t ELSE -1

\* pd.to_datetime over a whole column cannot succeed: some string is unreadable
SeriesMustRaise(col) == \E i \in 1..Len(col) : col[i].form = "bad"

\* pd.to_datetime over a whole column raises in some builds: pandas >= 2 infers
\* one format from the first string and rejects the strings of another format,
\* pandas 1.x reads each string on its own
SeriesMayRaise(col) ==
    \/ SeriesMustRaise(col)
    \/ \E i, j \in 1..Len(col) : col[i].form # col[j].form

\* position of the string pair (date, time) in byte order, as SQL ORDER BY and
\* DataFrame.sort_values on the two text columns compare them: a loose string is
\* a proper prefix of the canonical string of the same instant; a string
\* without leading zeros ('9:05:00') sorts after every string with a leading
\* zero ('08:05:00'), whatever its instant (the instants of the model are
\* hours before 10:00 of one day); letters sort after digits
StrKey(ts) ==
    CASE ts.form = "canon" -> 2 * ts.t + 1
      [] ts.form = "loose" -> 2 * ts.t
      [] ts.form = "unpadded" -> 2 * MaxTime + 2 + ts.t
      [] OTHER -> 3 * MaxTime + 3

(***************************************************************************)
(* Sequence helpers.                                                       *)
(***************************************************************************)
Range(s) == {s[i] : i \in 1..Len(s)}

\* the permutations of 1..n
Perms(n) == {p \in [1..n -> 1..n] : \A i, j \in 1..n : i # j => p[i] # p[j]}

\* all orders of the rows s that are non-decreasing in key[i], the key of row
\* s[i]: what a sort that promises nothing about equal keys can return
SortedOrders(s, key) ==
    LET n == Len(s)
    IN  {[i \in 1..n |-> s[q[i]]] : q \in
            {p \in Perms(n) : \A i \in 1..(n - 1) : key[p[i]] <= key[p[i + 1]]}}

Min(a, b) == IF a <= b THEN a ELSE b

VARIABLES
    \* ---- Journey Assembler (build_customer_journeys) ----
    conversions,            \* the caller's conversions table, in row order
    conv_columns,           \* the columns of the caller's conversions table
    session_sources,        \* the rows of table session_sources
    pc,                     \* position in build_customer_journeys
    conversions_df,         \* the sorted conversions (local after line 52)
    batch_start,            \* first row of the current lookup batch (1-based)
    sessions_df,            \* the sessions fetched for the current lookup batch
    conv_idx,               \* row of conversions_df the inner loop is at
    assigned_session_ids,   \* session ids already given to a conversion
    all_journey_sessions,   \* the journey records built so far
    \* ---- Journey Batcher (chunk_journeys) ----
    journeys,               \* the records handed to chunk_journeys
    max_journeys_per_chunk,
    max_sessions_per_chunk,
    cpc,                    \* position in chunk_journeys
    journey_groups,         \* the dict conv_id -> records, in insertion order
    next_session,           \* position of the grouping loop in journeys
    next_group,             \* position of the packing loop in journey_groups
    chunks,
    current_chunk,
    current_chunk_journeys,
    current_chunk_sessions,
    \* ---- Journey Validator (validate_journey_data) ----
    val_journeys,           \* the records handed to validate_journey_data
    val_pc,                 \* "call" before the call, "returned" after it
    val_result,             \* what validate_journey_data returned
    \* ---- sender (run_pipeline, send_journeys_to_api, compute_ihc) ----
    caller,                 \* who calls send_journeys_to_api
    journey_chunks,         \* the chunks handed to send_journeys_to_api
    max_retries,            \* api_client.max_retries
    spc,                    \* position in the sender
    chunk_i,                \* the chunk the loop of line 187 is at (1-based)
    attempt,                \* the attempt the loop of line 102 is at
    all_results,            \* the rows collected so far
    events,                 \* log of calls, requests, sleeps and extends
    rate_limit_delay,       \* parameter rate_limit_delay, in seconds
    gateway_log,            \* what the Gateway did with each request
    error_log,              \* the logger.error lines of send_journeys_to_api
    \* ---- Result sink (insert_attribution_results) ----
    store,                  \* the rows of attribution_customer_journey, by rowid
    insert_calls,           \* the calls of insert_attribution_results so far
    \* ---- run_pipeline ----
    p_conversions,          \* the conversions in the date range, with what they are
    p_fault,                \* what is wrong with the arguments or the environment
    ppc,                    \* the stage run_pipeline is at
    p_chunks,               \* journey_chunks returned by process_conversions
    p_conv_ids,             \* conv_ids returned by process_conversions
    p_filtered,             \* filtered_journey_chunks
    p_next,                 \* the chunk send_journeys_to_api is at
    p_sent,                 \* the chunks handed to the Gateway
    p_results,              \* attribution_results
    p_exit,                 \* the exit status of main, -1 while running
    \* ---- two calls of build_customer_journeys on the same data ----
    run,                    \* the call that is running, 0 when only one is made
    first_result,           \* what the first call returned
    \* ---- Report sink (export_channel_reporting_with_metrics) ----
    report_rows,            \* the rows of table channel_reporting in the date range
    rpc,                    \* position in export_channel_reporting_with_metrics
    report_df,              \* the DataFrame of the export
    report_csv,             \* the rows written to output_path
    \* ---- pipeline runs in a row over one database (run_pipeline) ----
    db_conversions,         \* the rows of table conversions
    runs_done,              \* the runs of the pipeline that have ended
    run_pc,                 \* the stage the current run is at
    run_journeys,           \* the journey records process_conversions built
    run_conv_ids,           \* conv_ids of the current run
    run_filtered,           \* the records left after filtering, to be sent
    \* ---- database connections of a run (setup_database, run_pipeline) ----
    connections,            \* the connections sqlite3.connect returned: "open" or "closed"
    conn                    \* run_pipeline's local conn: a position in connections, 0 for None

asmVars == <<conversions, conv_columns, session_sources, pc, conversions_df, batch_start,
             sessions_df, conv_idx, assigned_session_ids, all_journey_sessions>>

chunkVars == <<journeys, max_journeys_per_chunk, max_sessions_per_chunk, cpc,
               journey_groups, next_session, next_group, chunks, current_chunk,
               current_chunk_journeys, current_chunk_sessions>>

valVars == <<val_journeys, val_pc, val_result>>

sendVars == <<caller, journey_chunks, max_retries, spc, chunk_i, attempt,
              all_results, events, rate_limit_delay, gateway_log, error_log>>

storeVars == <<store, insert_calls>>

pipeVars == <<p_conversions, p_fault, ppc, p_chunks, p_conv_ids, p_filtered,
              p_next, p_sent, p_results, p_exit>>

runVars == <<run, first_result>>

reportVars == <<report_rows, rpc, report_df, report_csv>>

runsVars == <<db_conversions, runs_done, run_pc,
    run_journeys, run_conv_ids, run_filtered>>

connVars == <<connections, conn>>

vars == <<asmVars, chunkVars, valVars, sendVars, storeVars, pipeVars, runVars,
          reportVars,
          runsVars,
          connVars>>

\* what a step of one component leaves alone: the other components
nonAsmVars == <<chunkVars, valVars, sendVars, storeVars, pipeVars, runVars,
    reportVars,
    runsVars,
    connVars>>
nonChunkVars == <<asmVars, valVars, sendVars, storeVars, pipeVars, runVars,
    reportVars,
    runsVars,
    connVars>>
nonValVars == <<asmVars, chunkVars, sendVars, storeVars, pipeVars, runVars,
    reportVars,
    runsVars,
    connVars>>
nonSendVars == <<asmVars, chunkVars, valVars, storeVars, pipeVars, runVars,
    reportVars,
    runsVars,
    connVars>>
nonStoreVars == <<asmVars, chunkVars, valVars, sendVars, pipeVars, runVars,
    reportVars,
    runsVars,
    connVars>>
\* run_pipeline works on the table of the result sink too
nonPipeVars == <<asmVars, chunkVars, valVars, sendVars, runVars,
    reportVars,
    runsVars>>
nonReportVars == <<asmVars, chunkVars, valVars, sendVars,
    storeVars, pipeVars, runVars,
    runsVars,
    connVars>>
nonRunsVars == <<asmVars, chunkVars, valVars, sendVars,
    pipeVars, runVars, reportVars,
    connVars>>

(***************************************************************************)
(* Journey Assembler.                                                      *)
(***************************************************************************)
\* conversions per lookup of sessions; 1000 in the source, scaled down so that
\* a run within NConv conversions spans more than one lookup batch
batch_size == 2

ConvStamps == {Canon(t) : t \in 1..MaxTime} \cup {Loose(t) : t \in 1..MaxTime}
                  \cup {BadStamp}
SessStamps == {Canon(t) : t \in 0..MaxTime} \cup {Unpadded(t) : t \in 0..MaxTime}
                  \cup {Loose(t) : t \in 0..MaxTime} \cup {BadStamp}

Malformed(rows) == {i \in 1..Len(rows) : rows[i].ts.form # "canon"}

\* the conversions tables the Assembler is started on, in any row order;
\* conv_id is unique (the row number)
ConversionTables ==
    UNION {
        {[i \in 1..n |-> [conv_id |-> i, user_id |-> f[i][1], ts |-> f[i][2]]] :
            f \in [1..n -> Users \X ConvStamps]} : n \in 0..NConv}

\* the contents of session_sources; session_id is unique (the row number)
SessionTables ==
    UNION {
        {[i \in 1..n |-> [session_id |-> i, user_id |-> f[i][1], ts |-> f[i][2]]] :
            f \in [1..n -> Users \X SessStamps]} : n \in 0..NSess}

SessKey(row) == StrKey(row.ts)
ConvDatetime(row) == to_datetime(row.ts)

\* the columns of the table get_conversions hands over that the code reads
ConversionColumns == <<"conv_id", "user_id", "conv_date", "conv_time">>

\* The starting states.  Users and ids are labels the code only compares, and
\* a table is a set of rows, so one representative of each input is drawn: the
\* first conversion is u1's, a malformed conversion is the last row, and the
\* rows of session_sources are listed by (date, time) text.  At most one
\* timestamp of the whole input is malformed.
AsmInit ==
    /\ conversions \in
           {c \in ConversionTables :
               /\ Malformed(c) \subseteq {Len(c)}
               /\ c # <<>> => c[1].user_id = "u1"}
    /\ session_sources \in
           {s \in SessionTables :
               /\ \A i, j \in Malformed(s) : i = j
               /\ \A i \in 1..(Len(s) - 1) : SessKey(s[i]) <= SessKey(s[i + 1])}
    /\ ~(Malformed(conversions) # {} /\ Malformed(session_sources) # {})
    /\ conv_columns = ConversionColumns
    /\ pc = "sort"
    /\ conversions_df = <<>>
    /\ batch_start = 1
    /\ sessions_df = <<>>
    /\ conv_idx = 0
    /\ assigned_session_ids = {}
    /\ all_journey_sessions = <<>>

\* db_utils.get_sessions_for_user: the rows of the given users, ORDER BY
\* event_date, event_time; SQL leaves the order of rows with equal keys open
get_sessions_for_user(user_ids) ==
    LET rows == SelectSeq(session_sources, LAMBDA r : r.user_id \in user_ids)
    IN  SortedOrders(rows, [i \in 1..Len(rows) |-> SessKey(rows[i])])

\* mutant of SortConversionsByDatetime: the table is processed in row order
SortConversionsByDatetime_NoSort(df) == {df}

\* lines 49-52: the orders sort_values('conv_datetime') can return; the default
\* quicksort promises nothing about rows with equal conv_datetime
SortConversionsByDatetime(df) ==
    SortedOrders(df, [i \in 1..Len(df) |-> ConvDatetime(df[i])])

\* mutant of OccurredBefore: sessions at the conversion's instant are taken too
OccurredBefore_OrAt(session_ts, conv_timestamp) ==
    to_datetime(session_ts) <= to_datetime(conv_timestamp)

\* lines 81-84, the time half of the mask: the session is strictly before the
\* conversion, both read by pd.to_datetime
OccurredBefore(session_ts, conv_timestamp) ==
    to_datetime(session_ts) < to_datetime(conv_timestamp)

\* mutant of UserSessionsBefore: the user is not looked at
UserSessionsBefore_AnyUser(df, user_id, conv_timestamp) ==
    SelectSeq(df, LAMBDA r : OccurredBefore(r.ts, conv_timestamp))

\* lines 81-85: the sessions of this user that occurred before the conversion
UserSessionsBefore(df, user_id, conv_timestamp) ==
    SelectSeq(df, LAMBDA r : /\ r.user_id = user_id
                             /\ OccurredBefore(r.ts, conv_timestamp))

\* mutant of IsUnassigned: assigned sessions are not filtered out
IsUnassigned_NoFilter(session_id, assigned) == TRUE

\* lines 92-94, the mask: the session is not assigned to a conversion yet
IsUnassigned(session_id, assigned) == session_id \notin assigned

\* lines 92-94
UnassignedSessions(user_sessions, assigned) ==
    SelectSeq(user_sessions, LAMBDA r : IsUnassigned(r.session_id, assigned))

\* line 133: sort_values(by=['event_date', 'event_time']) is a stable sort on
\* the text of the two columns
RECURSIVE SortByEventDateTime(_)
SortByEventDateTime(df) ==
    IF df = <<>> THEN <<>>
    ELSE LET front == SortByEventDateTime(SubSeq(df, 1, Len(df) - 1))
             x == df[Len(df)]
             k == Cardinality({i \in 1..Len(front) : SessKey(front[i]) <= SessKey(x)})
         IN  SubSeq(front, 1, k) \o <<x>> \o SubSeq(front, k + 1, Len(front))

\* mutant of IdxMax: idxmin, the first row holding the least _temp_datetime
IdxMax_Min(df, valid) ==
    CHOOSE i \in valid :
        \A j \in valid : \/ strptime(df[j].ts) > strptime(df[i].ts)
                         \/ strptime(df[j].ts) = strptime(df[i].ts) /\ i <= j

\* line 155: Series.idxmax over the rows at positions valid: the first row
\* holding the greatest _temp_datetime
IdxMax(df, valid) ==
    CHOOSE i \in valid :
        \A j \in valid : \/ strptime(df[j].ts) < strptime(df[i].ts)
                         \/ strptime(df[j].ts) = strptime(df[i].ts) /\ i <= j

\* mutant of ConversionFlagRows: every row holding the greatest _temp_datetime
\* is flagged
ConversionFlagRows_AllMax(df, conv_timestamp) ==
    LET valid == {i \in 1..Len(df) : strptime(df[i].ts) <= strptime(conv_timestamp)}
    IN  {i \in valid : \A j \in valid : strptime(df[j].ts) <= strptime(df[i].ts)}

\* lines 149-156: the positions that get _temp_conversion_flag = 1
ConversionFlagRows(df, conv_timestamp) ==
    LET valid == {i \in 1..Len(df) : strptime(df[i].ts) <= strptime(conv_timestamp)}
    IN  IF df = <<>> \/ valid = {} THEN {} ELSE {IdxMax(df, valid)}

\* lines 143-146: strptime on every selected row raises ValueError
FormatRaises(df) == \E i \in 1..Len(df) : ~validate_timestamp(df[i].ts)

\* lines 132-181 (when lines 143-146 do not raise)
format_sessions_for_api(df, conv_id, conv_timestamp) ==
    LET sorted == SortByEventDateTime(df)
        flagged == ConversionFlagRows(sorted, conv_timestamp)
        kept == SelectSeq([i \in 1..Len(sorted) |-> [row |-> sorted[i], pos |-> i]],
                          LAMBDA e : validate_timestamp(e.row.ts))
    IN  [i \in 1..Len(kept) |->
            [conversion_id |-> conv_id,
             session_id |-> kept[i].row.session_id,
             timestamp |-> kept[i].row.ts,
             conversion |-> IF kept[i].pos \in flagged THEN 1 ELSE 0]]

\* the column of timestamp strings of a table
TsColumn(rows) == [i \in 1..Len(rows) |-> rows[i].ts]

BatchEnd == Min(batch_start + batch_size - 1, Len(conversions_df))

\* the conversion the inner loop is at
Conversion == conversions_df[conv_idx]

\* the end of one iteration of the inner loop (line 71): the next conversion of
\* the batch, or the next lookup batch (line 56)
NextConversion ==
    IF conv_idx < BatchEnd
    THEN /\ conv_idx' = conv_idx + 1
         /\ UNCHANGED <<pc, batch_start, sessions_df>>
    ELSE /\ pc' = "fetch"
         /\ batch_start' = batch_start + batch_size
         /\ conv_idx' = 0
         /\ sessions_df' = <<>>

\* lines 49-51: df[name] = ... sets the column in the table object itself,
\* which is the caller's; a new column is added after the last one
SetColumn(columns, name) ==
    IF \E i \in 1..Len(columns) : columns[i] = name THEN columns
    ELSE Append(columns, name)

\* lines 49-52: conv_datetime is computed for the whole column and stored in
\* the table, and the sorted table is bound to the local name
SortConversions ==
    /\ pc = "sort"
    /\ ~SeriesMustRaise(TsColumn(conversions))
    /\ conv_columns' = SetColumn(conv_columns, "conv_datetime")
    /\ conversions_df' \in SortConversionsByDatetime(conversions)
    /\ pc' = "fetch"
    /\ UNCHANGED <<conversions, session_sources, batch_start, sessions_df, conv_idx,
                   assigned_session_ids, all_journey_sessions>>
    /\ UNCHANGED nonAsmVars

\* line 49 raises (outside the try block): the run ends with an exception
SortRaises ==
    /\ pc = "sort"
    /\ SeriesMayRaise(TsColumn(conversions))
    /\ pc' = "raised"
    /\ UNCHANGED <<conversions, conv_columns, session_sources, conversions_df, batch_start,
                   sessions_df, conv_idx, assigned_session_ids, all_journey_sessions>>
    /\ UNCHANGED nonAsmVars

\* the users of the current lookup batch (line 61)
BatchUsers == {conversions_df[i].user_id : i \in batch_start..BatchEnd}

\* lines 56-65: one query for the sessions of all users of the batch
FetchSessions ==
    /\ pc = "fetch"
    /\ batch_start <= Len(conversions_df)
    /\ \E df \in get_sessions_for_user(BatchUsers) :
          /\ df # <<>>
          /\ sessions_df' = df
    /\ conv_idx' = batch_start
    /\ pc' = "conv"
    /\ UNCHANGED <<conversions, conv_columns, session_sources, conversions_df, batch_start,
                   assigned_session_ids, all_journey_sessions>>
    /\ UNCHANGED nonAsmVars

\* lines 67-68: the batch's users have no session at all; the batch is skipped
SkipEmptyBatch ==
    /\ pc = "fetch"
    /\ batch_start <= Len(conversions_df)
    /\ <<>> \in get_sessions_for_user(BatchUsers)
    /\ batch_start' = batch_start + batch_size
    /\ UNCHANGED <<conversions, conv_columns, session_sources, pc, conversions_df, sessions_df,
                   conv_idx, assigned_session_ids, all_journey_sessions>>
    /\ UNCHANGED nonAsmVars

\* lines 76-78: the conversion's timestamp is not in the strict format
SkipInvalidConversion ==
    /\ pc = "conv"
    /\ ~validate_timestamp(Conversion.ts)
    /\ NextConversion
    /\ UNCHANGED <<conversions, conv_columns, session_sources, conversions_df,
                   assigned_session_ids, all_journey_sessions>>
    /\ UNCHANGED nonAsmVars

\* lines 81-84 raise: pd.to_datetime over the event column of sessions_df fails;
\* the except block of line 111 re-raises
SessionParseRaises ==
    /\ pc = "conv"
    /\ validate_timestamp(Conversion.ts)
    /\ SeriesMayRaise(TsColumn(sessions_df))
    /\ pc' = "raised"
    /\ UNCHANGED <<conversions, conv_columns, session_sources, conversions_df, batch_start,
                   sessions_df, conv_idx, assigned_session_ids, all_journey_sessions>>
    /\ UNCHANGED nonAsmVars

\* lines 87-89: the user has no session before the conversion
SkipNoSessions ==
    /\ pc = "conv"
    /\ validate_timestamp(Conversion.ts)
    /\ ~SeriesMustRaise(TsColumn(sessions_df))
    /\ UserSessionsBefore(sessions_df, Conversion.user_id, Conversion.ts) = <<>>
    /\ NextConversion
    /\ UNCHANGED <<conversions, conv_columns, session_sources, conversions_df,
                   assigned_session_ids, all_journey_sessions>>
    /\ UNCHANGED nonAsmVars

\* lines 96-98: every session before the conversion is assigned already
SkipAllAssigned ==
    /\ pc = "conv"
    /\ validate_timestamp(Conversion.ts)
    /\ ~SeriesMustRaise(TsColumn(sessions_df))
    /\ LET user_sessions ==
               UserSessionsBefore(sessions_df, Conversion.user_id, Conversion.ts)
       IN  /\ user_sessions # <<>>
           /\ UnassignedSessions(user_sessions, assigned_session_ids) = <<>>
    /\ NextConversion
    /\ UNCHANGED <<conversions, conv_columns, session_sources, conversions_df,
                   assigned_session_ids, all_journey_sessions>>
    /\ UNCHANGED nonAsmVars

\* lines 100-107: the journey is formatted, its sessions are assigned and its
\* records are appended
BuildJourney ==
    /\ pc = "conv"
    /\ validate_timestamp(Conversion.ts)
    /\ ~SeriesMustRaise(TsColumn(sessions_df))
    /\ LET user_sessions ==
               UserSessionsBefore(sessions_df, Conversion.user_id, Conversion.ts)
           unassigned_sessions == UnassignedSessions(user_sessions, assigned_session_ids)
           journey_sessions ==
               format_sessions_for_api(unassigned_sessions, Conversion.conv_id,
                                       Conversion.ts)
       IN  /\ unassigned_sessions # <<>>
           /\ ~FormatRaises(unassigned_sessions)
           /\ assigned_session_ids' = assigned_session_ids \cup
                  {journey_sessions[i].session_id : i \in 1..Len(journey_sessions)}
           /\ all_journey_sessions' = all_journey_sessions \o journey_sessions
    /\ NextConversion
    /\ UNCHANGED <<conversions, conv_columns, session_sources, conversions_df>>
    /\ UNCHANGED nonAsmVars

\* lines 143-146 raise inside format_sessions_for_api: a selected session is
\* not in the strict format; the except block of line 111 re-raises
FormatSessionsRaises ==
    /\ pc = "conv"
    /\ validate_timestamp(Conversion.ts)
    /\ ~SeriesMustRaise(TsColumn(sessions_df))
    /\ LET user_sessions ==
               UserSessionsBefore(sessions_df, Conversion.user_id, Conversion.ts)
           unassigned_sessions == UnassignedSessions(user_sessions, assigned_session_ids)
       IN  /\ unassigned_sessions # <<>>
           /\ FormatRaises(unassigned_sessions)
    /\ pc' = "raised"
    /\ UNCHANGED <<conversions, conv_columns, session_sources, conversions_df, batch_start,
                   sessions_df, conv_idx, assigned_session_ids, all_journey_sessions>>
    /\ UNCHANGED nonAsmVars

\* line 115: all lookup batches are done
ReturnJourneys ==
    /\ pc = "fetch"
    /\ batch_start > Len(conversions_df)
    /\ pc' = "done"
    /\ UNCHANGED <<conversions, conv_columns, session_sources, conversions_df, batch_start,
                   sessions_df, conv_idx, assigned_session_ids, all_journey_sessions>>
    /\ UNCHANGED nonAsmVars

\* chunk_journeys is not running
ChunkIdle ==
    /\ journeys = <<>>
    /\ max_journeys_per_chunk = 0
    /\ max_sessions_per_chunk = 0
    /\ cpc = "idle"
    /\ journey_groups = <<>>
    /\ next_session = 0
    /\ next_group = 0
    /\ chunks = <<>>
    /\ current_chunk = <<>>
    /\ current_chunk_journeys = 0
    /\ current_chunk_sessions = 0

\* build_customer_journeys is not running
AsmIdle ==
    /\ conversions = <<>>
    /\ conv_columns = <<>>
    /\ session_sources = <<>>
    /\ pc = "idle"
    /\ conversions_df = <<>>
    /\ batch_start = 0
    /\ sessions_df = <<>>
    /\ conv_idx = 0
    /\ assigned_session_ids = {}
    /\ all_journey_sessions = <<>>

AsmNext ==
    \/ SortConversions
    \/ SortRaises
    \/ FetchSessions
    \/ SkipEmptyBatch
    \/ SkipInvalidConversion
    \/ SessionParseRaises
    \/ SkipNoSessions
    \/ SkipAllAssigned
    \/ BuildJourney
    \/ FormatSessionsRaises
    \/ ReturnJourneys

\* validate_journey_data is not running
ValIdle ==
    /\ val_journeys = <<>>
    /\ val_pc = "idle"
    /\ val_result = FALSE

\* send_journeys_to_api is not running
SendIdle ==
    /\ caller = "none"
    /\ journey_chunks = <<>>
    /\ max_retries = 0
    /\ spc = "idle"
    /\ chunk_i = 0
    /\ attempt = 0
    /\ all_results = <<>>
    /\ events = <<>>
    /\ rate_limit_delay = 0
    /\ gateway_log = <<>>
    /\ error_log = <<>>

\* insert_attribution_results has not been called; the table is empty
StoreIdle ==
    /\ store = <<>>
    /\ insert_calls = <<>>

\* run_pipeline is not running
PipeIdle ==
    /\ p_conversions = <<>>
    /\ p_fault = "none"
    /\ ppc = "idle"
    /\ p_chunks = <<>>
    /\ p_conv_ids = {}
    /\ p_filtered = <<>>
    /\ p_next = 0
    /\ p_sent = <<>>
    /\ p_results = <<>>
    /\ p_exit = -1

\* export_channel_reporting_with_metrics is not running
ReportIdle ==
    /\ report_rows = <<>>
    /\ rpc = "idle"
    /\ report_df = <<>>
    /\ report_csv = <<>>

\* no sequence of pipeline runs is under way
RunsIdle ==
    /\ db_conversions = <<>>
    /\ runs_done = 0
    /\ run_pc = "idle"
    /\ run_journeys = <<>>
    /\ run_conv_ids = {}
    /\ run_filtered = <<>>

\* no database connection has been opened
ConnIdle ==
    /\ connections = <<>>
    /\ conn = 0

\* a single call of build_customer_journeys is made
RunIdle ==
    /\ run = 0
    /\ first_result = <<>>

Init == AsmInit /\ ChunkIdle /\ ValIdle /\ SendIdle /\ StoreIdle /\ PipeIdle /\ RunIdle
        /\ ReportIdle
        /\ RunsIdle
        /\ ConnIdle

\* one run of build_customer_journeys
Spec == Init /\ [][AsmNext]_vars

\* the rows of table s supplied in the opposite row order
ReverseRows(s) == [i \in 1..Len(s) |-> s[Len(s) + 1 - i]]

\* build_customer_journeys is called on the same data a second time: the first
\* call has returned, its result is kept, and the call starts over (lines
\* 43-46) on a fresh conversions table with the same rows in the opposite row
\* order; the session table is the same, and the order in which its rows come
\* back is decided anew by each query
CallAgain ==
    /\ run = 1
    /\ pc = "done"
    /\ first_result' = all_journey_sessions
    /\ run' = 2
    /\ conversions' = ReverseRows(conversions)
    /\ conv_columns' = ConversionColumns
    /\ pc' = "sort"
    /\ conversions_df' = <<>>
    /\ batch_start' = 1
    /\ sessions_df' = <<>>
    /\ conv_idx' = 0
    /\ assigned_session_ids' = {}
    /\ all_journey_sessions' = <<>>
    /\ UNCHANGED session_sources
    /\ UNCHANGED <<chunkVars, valVars, sendVars, storeVars, pipeVars,
                   reportVars,
                   runsVars,
                   connVars>>

\* the first of two calls is about to start
InitTwoRuns ==
    /\ AsmInit /\ ChunkIdle /\ ValIdle /\ SendIdle /\ StoreIdle /\ PipeIdle
       /\ ReportIdle
       /\ RunsIdle
       /\ ConnIdle
    /\ run = 1
    /\ first_result = <<>>

TwoRunsNext ==
    \/ AsmNext
    \/ CallAgain

\* two runs of build_customer_journeys over the same data
SpecTwoRuns == InitTwoRuns /\ [][TwoRunsNext]_vars

(***************************************************************************)
(* Journey Batcher: chunk_journeys.                                        *)
(***************************************************************************)
\* the inputs of chunk_journeys: any sequence of records, the records of one
\* conversion not necessarily next to each other.  session_id is the position;
\* conversion ids are labels the code only compares, so they are numbered in
\* the order of their first record
JourneyLists ==
    UNION {
        {[i \in 1..n |-> [conversion_id |-> f[i], session_id |-> i]] :
            f \in {g \in [1..n -> 1..n] :
                      \A i \in 1..n :
                          \/ g[i] = 1
                          \/ \E j \in 1..(i - 1) : g[j] = g[i] - 1}} : n \in 0..MaxRecords}

ChunkInit ==
    /\ journeys \in JourneyLists
    /\ max_journeys_per_chunk \in 1..MaxJourneysLimit
    /\ max_sessions_per_chunk \in 1..MaxSessionsLimit
    /\ cpc = "group"
    /\ journey_groups = <<>>
    /\ next_session = 1
    /\ next_group = 0
    /\ chunks = <<>>
    /\ current_chunk = <<>>
    /\ current_chunk_journeys = 0
    /\ current_chunk_sessions = 0

\* mutant of AddToGroups: a record joins the latest group only; a conversion
\* whose records are not next to each other gets several groups
AddToGroups_Contiguous(groups, session) ==
    IF groups # <<>> /\ groups[Len(groups)].conv_id = session.conversion_id
    THEN [groups EXCEPT ![Len(groups)].sessions = Append(@, session)]
    ELSE Append(groups, [conv_id |-> session.conversion_id, sessions |-> <<session>>])

\* mutant of AddToGroups: a new key goes to the front of the dict
AddToGroups_NewFirst(groups, session) ==
    IF \E k \in 1..Len(groups) : groups[k].conv_id = session.conversion_id
    THEN [k \in 1..Len(groups) |->
             IF groups[k].conv_id = session.conversion_id
             THEN [groups[k] EXCEPT !.sessions = Append(@, session)]
             ELSE groups[k]]
    ELSE <<[conv_id |-> session.conversion_id, sessions |-> <<session>>]>> \o groups

\* lines 208-211: the record joins the list of its conv_id; a new key goes to
\* the end of the dict
AddToGroups(groups, session) ==
    IF \E k \in 1..Len(groups) : groups[k].conv_id = session.conversion_id
    THEN [k \in 1..Len(groups) |->
             IF groups[k].conv_id = session.conversion_id
             THEN [groups[k] EXCEPT !.sessions = Append(@, session)]
             ELSE groups[k]]
    ELSE Append(groups, [conv_id |-> session.conversion_id, sessions |-> <<session>>])

\* mutant of ExceedsLimits: the journey count is compared with > instead of >=
ExceedsLimits_OneMore(chunk_journeys, chunk_sessions, n, max_journeys, max_sessions) ==
    \/ chunk_journeys > max_journeys
    \/ chunk_sessions + n > max_sessions

\* mutant of ExceedsLimits: a chunk is closed one journey early
ExceedsLimits_Early(chunk_journeys, chunk_sessions, n, max_journeys, max_sessions) ==
    \/ chunk_journeys + 1 >= max_journeys
    \/ chunk_sessions + n > max_sessions

\* lines 221-222: adding a journey of n sessions would exceed the limits
ExceedsLimits(chunk_journeys, chunk_sessions, n, max_journeys, max_sessions) ==
    \/ chunk_journeys >= max_journeys
    \/ chunk_sessions + n > max_sessions

\* lines 207-211: one iteration of the grouping loop
GroupSession ==
    /\ cpc = "group"
    /\ next_session <= Len(journeys)
    /\ journey_groups' = AddToGroups(journey_groups, journeys[next_session])
    /\ next_session' = next_session + 1
    /\ UNCHANGED <<journeys, max_journeys_per_chunk, max_sessions_per_chunk, cpc,
                   next_group, chunks, current_chunk, current_chunk_journeys,
                   current_chunk_sessions>>
    /\ UNCHANGED nonChunkVars

\* lines 213-217: the grouping loop is over, the packing loop starts
CreateChunks ==
    /\ cpc = "group"
    /\ next_session > Len(journeys)
    /\ cpc' = "pack"
    /\ next_group' = 1
    /\ chunks' = <<>>
    /\ current_chunk' = <<>>
    /\ current_chunk_journeys' = 0
    /\ current_chunk_sessions' = 0
    /\ UNCHANGED <<journeys, max_journeys_per_chunk, max_sessions_per_chunk,
                   journey_groups, next_session>>
    /\ UNCHANGED nonChunkVars

\* the journey the packing loop is at
NextSessions == journey_groups[next_group].sessions

\* lines 219-232 when the test of lines 221-222 is true: the current chunk is
\* closed if it is not empty, and the journey starts a new one
PackIntoNewChunk ==
    /\ cpc = "pack"
    /\ next_group <= Len(journey_groups)
    /\ ExceedsLimits(current_chunk_journeys, current_chunk_sessions, Len(NextSessions),
                     max_journeys_per_chunk, max_sessions_per_chunk)
    /\ chunks' = IF current_chunk # <<>> THEN Append(chunks, current_chunk) ELSE chunks
    /\ current_chunk' = NextSessions
    /\ current_chunk_journeys' = 1
    /\ current_chunk_sessions' = Len(NextSessions)
    /\ next_group' = next_group + 1
    /\ UNCHANGED <<journeys, max_journeys_per_chunk, max_sessions_per_chunk, cpc,
                   journey_groups, next_session>>
    /\ UNCHANGED nonChunkVars

\* lines 219-232 when the test of lines 221-222 is false: the journey joins the
\* current chunk
PackIntoCurrentChunk ==
    /\ cpc = "pack"
    /\ next_group <= Len(journey_groups)
    /\ ~ExceedsLimits(current_chunk_journeys, current_chunk_sessions, Len(NextSessions),
                      max_journeys_per_chunk, max_sessions_per_chunk)
    /\ current_chunk' = current_chunk \o NextSessions
    /\ current_chunk_journeys' = current_chunk_journeys + 1
    /\ current_chunk_sessions' = current_chunk_sessions + Len(NextSessions)
    /\ next_group' = next_group + 1
    /\ UNCHANGED <<journeys, max_journeys_per_chunk, max_sessions_per_chunk, cpc,
                   journey_groups, next_session, chunks>>
    /\ UNCHANGED nonChunkVars

\* lines 234-239: the last chunk is added if it is not empty; chunks is returned
ReturnChunks ==
    /\ cpc = "pack"
    /\ next_group > Len(journey_groups)
    /\ chunks' = IF current_chunk # <<>> THEN Append(chunks, current_chunk) ELSE chunks
    /\ cpc' = "done"
    /\ UNCHANGED <<journeys, max_journeys_per_chunk, max_sessions_per_chunk,
                   journey_groups, next_session, next_group, current_chunk,
                   current_chunk_journeys, current_chunk_sessions>>
    /\ UNCHANGED nonChunkVars

ChunkNext ==
    \/ GroupSession
    \/ CreateChunks
    \/ PackIntoNewChunk
    \/ PackIntoCurrentChunk
    \/ ReturnChunks

InitChunk == AsmIdle /\ ChunkInit /\ ValIdle /\ SendIdle /\ StoreIdle /\ PipeIdle /\ RunIdle
        /\ ReportIdle
        /\ RunsIdle
        /\ ConnIdle

\* one call of chunk_journeys
SpecChunk == InitChunk /\ [][ChunkNext]_vars

(***************************************************************************)
(* Journey Validator: validate_journey_data.                               *)
(*                                                                         *)
(* A record is a dict: each of the eight keys is absent or holds a value, *)
(* and a value is a str, an int or None.                                   *)
(***************************************************************************)
Absent == [kind |-> "absent", v |-> ""]
StrVal(x) == [kind |-> "str", v |-> x]
IntVal(x) == [kind |-> "int", v |-> x]
NoneVal == [kind |-> "none", v |-> ""]

\* line 256-259
required_fields == <<"conversion_id", "session_id", "timestamp", "channel_label",
                     "holder_engagement", "closer_engagement", "conversion">>
\* lines 269-280: the keys whose value must be a str
text_fields == <<"conversion_id", "session_id", "timestamp", "channel_label">>
\* line 283
flag_fields == <<"holder_engagement", "closer_engagement", "conversion",
                 "impression_interaction">>

\* `field in session`
HasField(session, field) == session[field].kind # "absent"
\* isinstance(session[field], str)
IsStr(value) == value.kind = "str"
\* value == n for an int n (a str and NoneVal equal no int)
EqualsInt(value, n) == value.kind = "int" /\ value.v = n
\* value in [0, 1]
InZeroOne(value) == EqualsInt(value, "0") \/ EqualsInt(value, "1")

\* lines 263-266: the first loop over one record; TRUE when no field is missing
RECURSIVE RequiredPresent(_, _)
RequiredPresent(session, k) ==
    IF k > Len(required_fields) THEN TRUE
    ELSE IF ~HasField(session, required_fields[k]) THEN FALSE
         ELSE RequiredPresent(session, k + 1)

\* lines 269-280
TypesCorrect(session) ==
    IF ~IsStr(session["conversion_id"]) THEN FALSE
    ELSE IF ~IsStr(session["session_id"]) THEN FALSE
    ELSE IF ~IsStr(session["timestamp"]) THEN FALSE
    ELSE IF ~IsStr(session["channel_label"]) THEN FALSE
    ELSE TRUE

\* mutant of FlagsCorrect: the optional impression_interaction is not checked
RECURSIVE FlagsCorrect_RequiredOnly(_, _)
FlagsCorrect_RequiredOnly(session, k) ==
    IF k > Len(flag_fields) - 1 THEN TRUE
    ELSE IF HasField(session, flag_fields[k]) /\ ~InZeroOne(session[flag_fields[k]])
         THEN FALSE
         ELSE FlagsCorrect_RequiredOnly(session, k + 1)

\* lines 283-286: the loop over the flags; TRUE when no flag is out of [0, 1]
RECURSIVE FlagsCorrect(_, _)
FlagsCorrect(session, k) ==
    IF k > Len(flag_fields) THEN TRUE
    ELSE IF HasField(session, flag_fields[k]) /\ ~InZeroOne(session[flag_fields[k]])
         THEN FALSE
         ELSE FlagsCorrect(session, k + 1)

\* lines 261-286: the loop over the records from record i on; FALSE at the
\* first record that fails a check
RECURSIVE RecordsValid(_, _)
RecordsValid(journey_list, i) ==
    IF i > Len(journey_list) THEN TRUE
    ELSE IF ~RequiredPresent(journey_list[i], 1) THEN FALSE
    ELSE IF ~TypesCorrect(journey_list[i]) THEN FALSE
    ELSE IF ~FlagsCorrect(journey_list[i], 1) THEN FALSE
    ELSE RecordsValid(journey_list, i + 1)

\* lines 291-292: any(s['conversion'] == 1) over the records of the journey
HasConversionSession(journey_list, conv_id) ==
    LET conv_sessions == SelectSeq(journey_list, LAMBDA r : r["conversion_id"] = conv_id)
    IN  \E k \in 1..Len(conv_sessions) : EqualsInt(conv_sessions[k]["conversion"], "1")

\* lines 241-296
validate_journey_data(journey_list) ==
    IF ~RecordsValid(journey_list, 1) THEN FALSE
    ELSE LET conversion_ids ==
                 {journey_list[i]["conversion_id"] : i \in 1..Len(journey_list)}
         IN  \A conv_id \in conversion_ids : HasConversionSession(journey_list, conv_id)

\* a record that passes every per-record check
GoodRecord(conv_id, session_id, conversion, impression) ==
    [conversion_id |-> StrVal(conv_id), session_id |-> StrVal(session_id),
     timestamp |-> StrVal("2024-01-10 11:00:00"), channel_label |-> StrVal("Email"),
     holder_engagement |-> IntVal("1"), closer_engagement |-> IntVal("0"),
     conversion |-> IntVal(conversion), impression_interaction |-> impression]

\* the records with one field changed: a required key removed, a text field
\* holding an int or NoneVal, a flag holding another int, a str or NoneVal
DefectsOf(r) ==
    {[r EXCEPT ![required_fields[k]] = Absent] : k \in 1..Len(required_fields)}
        \cup {[r EXCEPT ![text_fields[k]] = bad] :
                 k \in 1..Len(text_fields), bad \in {IntVal("1"), NoneVal}}
        \cup {[r EXCEPT ![flag_fields[k]] = bad] :
                 k \in 1..Len(flag_fields), bad \in {IntVal("2"), StrVal("1"), NoneVal}}

\* the session_id of the record at position i
SessionName(i) == <<"s1", "s2", "s3", "s4", "s5", "s6">>[i]

\* the good records: of conversion c1 or c2, conversion session or not, with or
\* without the optional impression_interaction
GoodChoices == {"c1", "c2"} \X {"0", "1"} \X {Absent, IntVal("1")}

\* The lists handed to validate_journey_data: lists of good records (with or
\* without a conversion session per journey), at most one of them changed in
\* one field.
ValInit ==
    /\ \E n \in 0..MaxValRecords :
          \E g \in [1..n -> GoodChoices] :
              LET good == [i \in 1..n |->
                              GoodRecord(g[i][1], SessionName(i), g[i][2], g[i][3])]
              IN  \/ val_journeys = good
                  \/ \E i \in 1..n :
                        \E d \in DefectsOf(good[i]) :
                            val_journeys = [good EXCEPT ![i] = d]
    /\ val_pc = "call"
    /\ val_result = FALSE

\* lines 241-296: one call
Validate ==
    /\ val_pc = "call"
    /\ val_result' = validate_journey_data(val_journeys)
    /\ val_pc' = "returned"
    /\ UNCHANGED val_journeys
    /\ UNCHANGED nonValVars

ValNext == Validate

InitValidate == AsmIdle /\ ChunkIdle /\ ValInit /\ SendIdle /\ StoreIdle /\ PipeIdle /\ RunIdle
        /\ ReportIdle
        /\ RunsIdle
        /\ ConnIdle

\* one call of validate_journey_data
SpecValidate == InitValidate /\ [][ValNext]_vars

(***************************************************************************)
(* Sender: send_journeys_to_api with IHCApiClient.compute_ihc and          *)
(* process_ihc_results, called directly or by run_pipeline after the gate  *)
(* of process_conversions.                                                 *)
(***************************************************************************)
\* the chunks the sender is started on: a journey of two sessions, a journey
\* without a conversion session, a journey with a flag out of range, a journey
\* of one session
ChunkPool ==
    {<<GoodRecord("c1", "s1", "0", Absent), GoodRecord("c1", "s2", "1", Absent)>>,
     <<GoodRecord("c2", "s3", "0", Absent)>>,
     <<[GoodRecord("c3", "s4", "1", Absent) EXCEPT !["closer_engagement"] = IntVal("2")]>>,
     <<GoodRecord("c4", "s5", "1", IntVal("1"))>>}

\* the lists of chunks: a journey is in one chunk only (chunk_journeys)
ChunkLists ==
    UNION {{l \in [1..n -> ChunkPool] : \A i, j \in 1..n : i # j => l[i] # l[j]} :
              n \in 0..MaxChunks}

\* the records of all the chunks in order
RECURSIVE Flatten(_)
Flatten(chunk_list) ==
    IF chunk_list = <<>> THEN <<>>
    ELSE Head(chunk_list) \o Flatten(Tail(chunk_list))

\* --rate_limit_delay is any float (main.py line 67): a delay, or a negative
\* number, for which time.sleep raises a ValueError
RateLimitDelays == {-1, 1}

\* The sender is called by run_pipeline, after process_conversions has looked
\* at the journeys the chunks are cut from, or directly on a list of chunks.
SendInit ==
    /\ caller \in {"run_pipeline", "direct"}
    /\ journey_chunks \in ChunkLists
    /\ max_retries \in 0..MaxRetries
    /\ spc = IF caller = "run_pipeline" THEN "process_conversions" ELSE "loop"
    /\ chunk_i = 1
    /\ attempt = 0
    /\ all_results = <<>>
    /\ events = <<>>
    /\ rate_limit_delay \in RateLimitDelays
    /\ gateway_log = <<>>
    /\ error_log = <<>>

Event(type, i) == [type |-> type, chunk |-> i]

\* what is not touched while the sender runs: its parameters
sendParams == <<caller, journey_chunks, max_retries, rate_limit_delay>>

\* main.py lines 166-179: no journeys, or the journeys fail validation:
\* process_conversions returns (False, [], []) and run_pipeline returns False
ProcessConversionsFails ==
    /\ spc = "process_conversions"
    /\ \/ Flatten(journey_chunks) = <<>>
       \/ ~validate_journey_data(Flatten(journey_chunks))
    /\ spc' = "done"
    /\ UNCHANGED <<sendParams, chunk_i, attempt, all_results, events,
                   gateway_log, error_log>>
    /\ UNCHANGED nonSendVars

\* main.py lines 176-192, 353, 223: the journeys pass, the chunks go to
\* send_journeys_to_api
ProcessConversionsPasses ==
    /\ spc = "process_conversions"
    /\ Flatten(journey_chunks) # <<>>
    /\ validate_journey_data(Flatten(journey_chunks))
    /\ spc' = "loop"
    /\ UNCHANGED <<sendParams, chunk_i, attempt, all_results, events,
                   gateway_log, error_log>>
    /\ UNCHANGED nonSendVars

\* mutant of ChunkIsValid: every chunk passes
ChunkIsValid_Always(chunk) == TRUE

\* api_utils.py line 193: the test on the chunk
ChunkIsValid(chunk) == validate_journey_data(chunk)

\* mutant of AfterChunk: an error in a chunk ends the loop
AfterChunk_StopOnError(failed) == IF failed THEN "done" ELSE "loop"

\* lines 187, 194, 208-210: where the sender goes after a chunk, failed or not:
\* `continue` and the except clause both lead to the next iteration
AfterChunk(failed) == "loop"

\* the loop of line 187 goes to the next chunk
NextChunk(failed) ==
    /\ chunk_i' = chunk_i + 1
    /\ attempt' = 0
    /\ spc' = AfterChunk(failed)

\* a logger.error line of send_journeys_to_api (lines 194, 209)
ErrorLine(i, error) == [chunk |-> i, error |-> error]

\* a request of chunk i and what came back: a response, or no usable response
\* (outcome RequestException)
GatewayEntry(i, outcome, response) ==
    [chunk |-> i, outcome |-> outcome, response |-> response]

\* no response, or a body that is no JSON
NoResponse == [statusCode |-> 0, partialFailureErrors |-> FALSE, value |-> <<>>]
\* a JSON object whose statusCode is neither 200 nor 206
ErrorResponse == [statusCode |-> 500, partialFailureErrors |-> FALSE, value |-> <<>>]

\* lines 192-195: the chunk fails validation, `continue`
SkipInvalidChunk ==
    /\ spc = "loop"
    /\ chunk_i <= Len(journey_chunks)
    /\ ~ChunkIsValid(journey_chunks[chunk_i])
    /\ error_log' = Append(error_log, ErrorLine(chunk_i, "Invalid journey data"))
    /\ NextChunk(TRUE)
    /\ UNCHANGED <<sendParams, all_results, events, gateway_log>>
    /\ UNCHANGED nonSendVars

\* lines 192-198: the chunk passes, compute_ihc is called with it
CallComputeIhc ==
    /\ spc = "loop"
    /\ chunk_i <= Len(journey_chunks)
    /\ ChunkIsValid(journey_chunks[chunk_i])
    /\ events' = Append(events, Event("compute_ihc", chunk_i))
    /\ attempt' = 0
    /\ spc' = "compute_ihc"
    /\ UNCHANGED <<sendParams, chunk_i, all_results, gateway_log, error_log>>
    /\ UNCHANGED nonSendVars

\* line 102 with range(max_retries) used up before any attempt: compute_ihc
\* falls off its end and returns None; process_ihc_results(None) raises at
\* line 154, line 208 catches it
ComputeIhcReturnsNone ==
    /\ spc = "compute_ihc"
    /\ attempt >= max_retries
    /\ error_log' = Append(error_log, ErrorLine(chunk_i, "AttributeError"))
    /\ NextChunk(TRUE)
    /\ UNCHANGED <<sendParams, all_results, events, gateway_log>>
    /\ UNCHANGED nonSendVars

\* what fails a request for the retry loop: requests.RequestException (no
\* connection, HTTP error status at line 111, body that is no JSON at line
\* 114) or the ValueError of line 120 (statusCode not 200 or 206)
RequestFailures == {"RequestException", "ValueError"}

\* what the Gateway sent when the request fails with `failure`
FailedResponse(failure) ==
    IF failure = "ValueError" THEN ErrorResponse ELSE NoResponse

\* mutant of RetryFollows: one attempt more than max_retries
RetryFollows_OneMore(n, retries) == n < retries

\* line 133: another attempt follows the failed attempt n
RetryFollows(n, retries) == n < retries - 1

\* lines 104-138: a request fails and another attempt follows after the sleep
RequestFailsRetry ==
    /\ spc = "compute_ihc"
    /\ attempt < max_retries
    /\ RetryFollows(attempt, max_retries)
    /\ \E failure \in RequestFailures :
          gateway_log' = Append(gateway_log,
                                GatewayEntry(chunk_i, failure, FailedResponse(failure)))
    /\ events' = events \o <<Event("request", chunk_i), Event("retry_sleep", chunk_i)>>
    /\ attempt' = attempt + 1
    /\ UNCHANGED <<sendParams, spc, chunk_i, all_results, error_log>>
    /\ UNCHANGED nonSendVars

\* lines 104-138: the last request fails, compute_ihc raises, line 208 catches
RequestFailsRaise ==
    /\ spc = "compute_ihc"
    /\ attempt < max_retries
    /\ ~RetryFollows(attempt, max_retries)
    /\ \E failure \in RequestFailures :
          /\ gateway_log' = Append(gateway_log,
                                   GatewayEntry(chunk_i, failure, FailedResponse(failure)))
          /\ error_log' = Append(error_log, ErrorLine(chunk_i, failure))
    /\ events' = Append(events, Event("request", chunk_i))
    /\ NextChunk(TRUE)
    /\ UNCHANGED <<sendParams, all_results>>
    /\ UNCHANGED nonSendVars

\* lines 104-117: the body is JSON but no object: result.get raises an
\* AttributeError the retry loop does not catch, line 208 catches it
ResponseNotObject ==
    /\ spc = "compute_ihc"
    /\ attempt < max_retries
    /\ gateway_log' = Append(gateway_log, GatewayEntry(chunk_i, "not an object", NoResponse))
    /\ error_log' = Append(error_log, ErrorLine(chunk_i, "AttributeError"))
    /\ events' = Append(events, Event("request", chunk_i))
    /\ NextChunk(TRUE)
    /\ UNCHANGED <<sendParams, all_results>>
    /\ UNCHANGED nonSendVars

\* the triples the Gateway computes for a chunk, one per session
Triples(chunk) ==
    [k \in 1..Len(chunk) |->
        [conversion_id |-> chunk[k]["conversion_id"].v,
         session_id |-> chunk[k]["session_id"].v,
         ihc |-> "ihc"]]

\* the triples with the key 'ihc' missing from the last one
TriplesLackingKey(chunk) ==
    [Triples(chunk) EXCEPT ![Len(chunk)].ihc = "missing"]

\* the responses with statusCode 200 or 206: all triples, triples one of which
\* lacks a key, or, with partial failures, some first triples
OkResponses(chunk) ==
    {[statusCode |-> 200, partialFailureErrors |-> FALSE, value |-> Triples(chunk)],
     [statusCode |-> 200, partialFailureErrors |-> FALSE,
      value |-> TriplesLackingKey(chunk)]}
        \cup {[statusCode |-> code, partialFailureErrors |-> TRUE,
               value |-> SubSeq(Triples(chunk), 1, n)] :
                   code \in {200, 206}, n \in 0..(Len(chunk) - 1)}

\* lines 157-162: result['ihc'] raises a KeyError for some triple
RaisesKeyError(api_response) ==
    \E k \in 1..Len(api_response.value) : api_response.value[k].ihc = "missing"

\* mutant of process_ihc_results: a response with partial failures gives no row
process_ihc_results_DropPartial(api_response) ==
    IF api_response.partialFailureErrors THEN <<>>
    ELSE [k \in 1..Len(api_response.value) |->
             [conv_id |-> api_response.value[k].conversion_id,
              session_id |-> api_response.value[k].session_id,
              ihc |-> api_response.value[k].ihc]]

\* lines 153-164: the rows of a response
process_ihc_results(api_response) ==
    [k \in 1..Len(api_response.value) |->
        [conv_id |-> api_response.value[k].conversion_id,
         session_id |-> api_response.value[k].session_id,
         ihc |-> api_response.value[k].ihc]]

\* lines 104-131, 201, 208: the request succeeds, compute_ihc returns the
\* response, process_ihc_results raises a KeyError on it, line 208 catches it
ResponseMalformed ==
    /\ spc = "compute_ihc"
    /\ attempt < max_retries
    /\ \E response \in OkResponses(journey_chunks[chunk_i]) :
          /\ RaisesKeyError(response)
          /\ gateway_log' = Append(gateway_log, GatewayEntry(chunk_i, "ok", response))
    /\ error_log' = Append(error_log, ErrorLine(chunk_i, "KeyError"))
    /\ events' = Append(events, Event("request", chunk_i))
    /\ NextChunk(TRUE)
    /\ UNCHANGED <<sendParams, all_results>>
    /\ UNCHANGED nonSendVars

\* line 205: this is not the last chunk
SleepDue == chunk_i - 1 < Len(journey_chunks) - 1

\* lines 104-131, 201-206: the request succeeds, the rows of the response are
\* added, and the loop sleeps unless the chunk is the last; time.sleep of a
\* negative delay raises a ValueError, which line 208 catches
ResponseProcessed ==
    /\ spc = "compute_ihc"
    /\ attempt < max_retries
    /\ \E response \in OkResponses(journey_chunks[chunk_i]) :
          /\ ~RaisesKeyError(response)
          /\ gateway_log' = Append(gateway_log, GatewayEntry(chunk_i, "ok", response))
          /\ all_results' = all_results \o process_ihc_results(response)
    /\ events' = events
           \o <<Event("request", chunk_i), Event("extend", chunk_i)>>
           \o (IF SleepDue /\ rate_limit_delay >= 0
               THEN <<Event("rate_limit_sleep", chunk_i)>> ELSE <<>>)
    /\ error_log' = IF SleepDue /\ rate_limit_delay < 0
                    THEN Append(error_log, ErrorLine(chunk_i, "ValueError"))
                    ELSE error_log
    /\ NextChunk(SleepDue /\ rate_limit_delay < 0)
    /\ UNCHANGED sendParams
    /\ UNCHANGED nonSendVars

\* lines 212-213: the loop is over
ReturnResults ==
    /\ spc = "loop"
    /\ chunk_i > Len(journey_chunks)
    /\ spc' = "done"
    /\ UNCHANGED <<sendParams, chunk_i, attempt, all_results, events,
                   gateway_log, error_log>>
    /\ UNCHANGED nonSendVars

SendNext ==
    \/ ProcessConversionsFails
    \/ ProcessConversionsPasses
    \/ SkipInvalidChunk
    \/ CallComputeIhc
    \/ ComputeIhcReturnsNone
    \/ RequestFailsRetry
    \/ RequestFailsRaise
    \/ ResponseNotObject
    \/ ResponseMalformed
    \/ ResponseProcessed
    \/ ReturnResults

InitSend == AsmIdle /\ ChunkIdle /\ ValIdle /\ SendInit /\ StoreIdle /\ PipeIdle /\ RunIdle
        /\ ReportIdle
        /\ RunsIdle
        /\ ConnIdle

\* one run of the sender
SpecSend == InitSend /\ [][SendNext]_vars

(***************************************************************************)
(* Result sink: insert_attribution_results on table                        *)
(* attribution_customer_journey.  The table is created by the SQL script   *)
(* run by setup_database; its key is (conv_id, session_id).                *)
(***************************************************************************)
\* the results handed over: triples of one conversion, two sessions and two
\* ihc values, and a result without the key 'ihc' ("missing")
InsertResults ==
    [conv_id : {"c1"}, session_id : {"s1", "s2"}, ihc : {"0.4", "0.6"}]
        \cup {[conv_id |-> "c1", session_id |-> "s1", ihc |-> "missing"]}

InsertResultLists ==
    UNION {[1..n -> InsertResults] : n \in 0..MaxInsertRows}

\* the key of table attribution_customer_journey: a row with the same
\* (conv_id, session_id) is stored
ViolatesKey(table, row) ==
    \E k \in 1..Len(table) :
        table[k].conv_id = row.conv_id /\ table[k].session_id = row.session_id

\* mutant of InsertOrIgnore: a plain insertion, the stored rows are not looked at
InsertOrIgnore_Append(table, row) == Append(table, row)

\* lines 201-204: INSERT OR IGNORE of one row: a row that violates the key is
\* left out, the statement goes on
InsertOrIgnore(table, row) ==
    IF ViolatesKey(table, row) THEN table ELSE Append(table, row)

\* line 218: executemany, the rows from the k-th on
RECURSIVE ExecuteMany(_, _, _)
ExecuteMany(table, data, k) ==
    IF k > Len(data) THEN table
    ELSE ExecuteMany(InsertOrIgnore(table, data[k]), data, k + 1)

\* lines 207-214: building the tuples raises a KeyError
DataRaises(attribution_results) ==
    \E k \in 1..Len(attribution_results) : attribution_results[k].ihc = "missing"

StoreInit ==
    /\ store = <<>>
    /\ insert_calls = <<>>

\* lines 193-195: nothing to insert
InsertNothing ==
    /\ Len(insert_calls) < MaxInsertCalls
    /\ insert_calls' = Append(insert_calls, [results |-> <<>>, raised |-> FALSE])
    /\ UNCHANGED store
    /\ UNCHANGED nonStoreVars

\* lines 197-222: the rows are inserted and committed
InsertAttributionResults ==
    /\ Len(insert_calls) < MaxInsertCalls
    /\ \E attribution_results \in InsertResultLists :
          /\ attribution_results # <<>>
          /\ ~DataRaises(attribution_results)
          /\ store' = ExecuteMany(store, attribution_results, 1)
          /\ insert_calls' = Append(insert_calls,
                                    [results |-> attribution_results, raised |-> FALSE])
    /\ UNCHANGED nonStoreVars

\* lines 207-214, 223-225: a result lacks a key; nothing was executed, the
\* rollback leaves the table as it was, the error is raised again
InsertRaises ==
    /\ Len(insert_calls) < MaxInsertCalls
    /\ \E attribution_results \in InsertResultLists :
          /\ attribution_results # <<>>
          /\ DataRaises(attribution_results)
          /\ insert_calls' = Append(insert_calls,
                                    [results |-> attribution_results, raised |-> TRUE])
    /\ UNCHANGED store
    /\ UNCHANGED nonStoreVars

StoreNext ==
    \/ InsertNothing
    \/ InsertAttributionResults
    \/ InsertRaises

InitStore == AsmIdle /\ ChunkIdle /\ ValIdle /\ SendIdle /\ StoreInit /\ PipeIdle /\ RunIdle
        /\ ReportIdle
        /\ RunsIdle
        /\ ConnIdle

\* calls of insert_attribution_results on one database
SpecStore == InitStore /\ [][StoreNext]_vars

(***************************************************************************)
(* run_pipeline and main: the stages of one run, with the Assembler, the   *)
(* Batcher and the sender taken by their results.                          *)
(*                                                                         *)
(* A conversion of the date range is one of                                *)
(*   ok             it has a session before it and gets a journey;         *)
(*   no_sessions    it has no session before it and gets no journey;       *)
(*   bad_timestamp  its conv_date/conv_time cannot be read: pd.to_datetime *)
(*                  raises at journey_builder.py line 49;                  *)
(*   bad_record     it gets a journey whose session has no channel_name    *)
(*                  (NULL), which validate_journey_data rejects.           *)
(***************************************************************************)
ConversionKinds == {"ok", "no_sessions", "bad_timestamp", "bad_record"}

\* conv_id and session_id of the conversion in row i and of its session
ConvName(i) == <<"c1", "c2", "c3", "c4", "c5", "c6">>[i]

PipelineConversions ==
    UNION {{[i \in 1..n |-> [conv_id |-> ConvName(i), kind |-> f[i]]] :
               f \in [1..n -> ConversionKinds]} : n \in 0..MaxPipelineConvs}

\* what can be wrong outside the data: the dates given, the database (it
\* cannot be connected to), the table-creation script (missing or failing),
\* the API credentials, the path of the report
PipelineFaults == {"none", "dates", "database", "sql_file", "credentials", "export"}

\* the attribution row stored for the session of the conversion in row i
StoredRow(i) == [conv_id |-> ConvName(i), session_id |-> SessionName(i), ihc |-> "ihc"]

\* the tables attribution_customer_journey a run starts on: rows of earlier
\* runs, for some of the conversions that have sessions
StartStores(convs) ==
    {SelectSeq([i \in 1..Len(convs) |-> StoredRow(i)],
               LAMBDA r : \E i \in S : r = StoredRow(i)) :
        S \in SUBSET {i \in 1..Len(convs) : convs[i].kind = "ok"}}

PipeInit ==
    /\ p_conversions \in PipelineConversions
    /\ p_fault \in PipelineFaults
    /\ store \in StartStores(p_conversions)
    /\ insert_calls = <<>>
    /\ ppc = "validate_dates"
    /\ p_chunks = <<>>
    /\ p_conv_ids = {}
    /\ p_filtered = <<>>
    /\ p_next = 0
    /\ p_sent = <<>>
    /\ p_results = <<>>
    /\ p_exit = -1

\* main.py lines 384-394: run_pipeline returned `success`
Exit(success) ==
    /\ ppc' = "exit"
    /\ p_exit' = IF success THEN 0 ELSE 1

\* main.py lines 374-378: the finally of run_pipeline closes conn when the try
\* block is left
Finally ==
    /\ connections' = IF ppc' = "exit" /\ conn # 0
                      THEN [connections EXCEPT ![conn] = "closed"]
                      ELSE connections
    /\ UNCHANGED conn

\* main.py lines 313-315
ValidateDates ==
    /\ ppc = "validate_dates"
    /\ IF p_fault = "dates" THEN Exit(FALSE)
       ELSE ppc' = "setup_database" /\ UNCHANGED p_exit
    /\ UNCHANGED <<p_conversions, p_fault, p_chunks, p_conv_ids, p_filtered, p_next,
                   p_sent, p_results, storeVars>>
    /\ UNCHANGED nonPipeVars
    /\ UNCHANGED connVars

\* main.py lines 317-319 with setup_database (lines 125-135): get_db_connection
\* raises and nothing was opened; or the connection is opened, execute_sql_file
\* raises and setup_database returns None; or the connection is returned
SetupDatabase ==
    /\ ppc = "setup_database"
    /\ CASE p_fault = "database" -> Exit(FALSE) /\ UNCHANGED connVars
         [] p_fault = "sql_file" ->
                /\ connections' = Append(connections, "open")
                /\ conn' = 0
                /\ Exit(FALSE)
         [] OTHER ->
                /\ connections' = Append(connections, "open")
                /\ conn' = Len(connections) + 1
                /\ ppc' = "process_conversions"
                /\ UNCHANGED p_exit
    /\ UNCHANGED <<p_conversions, p_fault, p_chunks, p_conv_ids, p_filtered, p_next,
                   p_sent, p_results, storeVars>>
    /\ UNCHANGED nonPipeVars

\* journey_builder.py lines 49-51: pd.to_datetime raises outside the try of
\* line 72 when a conversion timestamp cannot be read
BuildRaises(convs) == \E i \in 1..Len(convs) : convs[i].kind = "bad_timestamp"

\* the record of the journey of the conversion in row i
JourneyRecord(convs, i) ==
    IF convs[i].kind = "bad_record"
    THEN [GoodRecord(ConvName(i), SessionName(i), "1", IntVal("0"))
              EXCEPT !["channel_label"] = NoneVal]
    ELSE GoodRecord(ConvName(i), SessionName(i), "1", IntVal("0"))

\* what build_customer_journeys returns: the journeys of the conversions that
\* have sessions, from row i on
RECURSIVE BuiltJourneys(_, _)
BuiltJourneys(convs, i) ==
    IF i > Len(convs) THEN <<>>
    ELSE (IF convs[i].kind \in {"ok", "bad_record"}
          THEN <<JourneyRecord(convs, i)>> ELSE <<>>) \o BuiltJourneys(convs, i + 1)

\* max_journeys_per_chunk of chunk_journeys as process_conversions calls it;
\* 100 in the source, scaled down to have several chunks in a run
default_max_journeys_per_chunk == 2

\* chunk_journeys on journeys of one session each, the session limit not
\* reached
RECURSIVE ChunksOfJourneys(_)
ChunksOfJourneys(journey_list) ==
    IF journey_list = <<>> THEN <<>>
    ELSE LET n == Min(default_max_journeys_per_chunk, Len(journey_list))
         IN  <<SubSeq(journey_list, 1, n)>>
                 \o ChunksOfJourneys(SubSeq(journey_list, n + 1, Len(journey_list)))

\* main.py lines 153-192: (success, journey_chunks, conv_ids)
ProcessConversions ==
    /\ ppc = "process_conversions"
    /\ LET journey_list == BuiltJourneys(p_conversions, 1)
       IN  IF \/ p_conversions = <<>>
              \/ BuildRaises(p_conversions)
              \/ journey_list = <<>>
              \/ ~validate_journey_data(journey_list)
           THEN Exit(FALSE) /\ UNCHANGED <<p_chunks, p_conv_ids>>
           ELSE /\ p_chunks' = ChunksOfJourneys(journey_list)
                /\ p_conv_ids' = {p_conversions[i].conv_id : i \in 1..Len(p_conversions)}
                /\ ppc' = "check_attribution"
                /\ UNCHANGED p_exit
    /\ UNCHANGED <<p_conversions, p_fault, p_filtered, p_next, p_sent, p_results,
                   storeVars>>
    /\ UNCHANGED nonPipeVars
    /\ Finally

\* db_utils.py lines 273-297: the conv_ids without a row in the table
MissingConvIds(conv_ids, table) ==
    conv_ids \ {table[k].conv_id : k \in 1..Len(table)}

\* mutant of FilterChunk: the chunk is sent as it is
FilterChunk_Keep(chunk, missing_conv_ids) == chunk

\* main.py lines 340-343
FilterChunk(chunk, missing_conv_ids) ==
    SelectSeq(chunk, LAMBDA session : session["conversion_id"].v \in missing_conv_ids)

\* main.py lines 338-345: the filtered chunks that are not empty
RECURSIVE FilterChunks(_, _)
FilterChunks(chunk_list, missing_conv_ids) ==
    IF chunk_list = <<>> THEN <<>>
    ELSE (IF FilterChunk(Head(chunk_list), missing_conv_ids) # <<>>
          THEN <<FilterChunk(Head(chunk_list), missing_conv_ids)>> ELSE <<>>)
             \o FilterChunks(Tail(chunk_list), missing_conv_ids)

\* main.py lines 328-353 and 209-219: nothing is missing, or nothing is left
\* after filtering: on to the report; else the credentials are read and the
\* client is made
CheckAttribution ==
    /\ ppc = "check_attribution"
    /\ LET missing_conv_ids == MissingConvIds(p_conv_ids, store)
           filtered == IF missing_conv_ids = {} THEN <<>>
                       ELSE FilterChunks(p_chunks, missing_conv_ids)
       IN  /\ p_filtered' = filtered
           /\ IF filtered = <<>> THEN ppc' = "store" /\ UNCHANGED p_exit
              ELSE IF p_fault = "credentials" THEN Exit(FALSE)
              ELSE ppc' = "send" /\ UNCHANGED p_exit
    /\ p_next' = 1
    /\ UNCHANGED <<p_conversions, p_fault, p_chunks, p_conv_ids, p_sent, p_results,
                   storeVars>>
    /\ UNCHANGED nonPipeVars
    /\ Finally

\* what one chunk ends in at the Gateway: no usable response after the
\* retries, rows, or rows with an ihc out of [0, 1]
ChunkOutcomes == {"failed", "rows", "invalid_row"}

\* the rows of a chunk for an outcome
OutcomeRows(chunk, outcome) ==
    LET rows == process_ihc_results([value |-> Triples(chunk)])
    IN  CASE outcome = "rows" -> rows
          [] outcome = "invalid_row" -> [rows EXCEPT ![1].ihc = "out of range"]
          [] OTHER -> <<>>

\* api_utils.py lines 187-210 for one chunk: a chunk that passes validation is
\* handed to the Gateway, and its rows, if any, are added
PipelineSendChunk ==
    /\ ppc = "send"
    /\ p_next <= Len(p_filtered)
    /\ IF ~ChunkIsValid(p_filtered[p_next]) THEN UNCHANGED <<p_sent, p_results>>
       ELSE /\ p_sent' = Append(p_sent, p_filtered[p_next])
            /\ \E outcome \in ChunkOutcomes :
                  p_results' = p_results \o OutcomeRows(p_filtered[p_next], outcome)
    /\ p_next' = p_next + 1
    /\ UNCHANGED <<p_conversions, p_fault, ppc, p_chunks, p_conv_ids, p_filtered,
                   p_exit, storeVars>>
    /\ UNCHANGED nonPipeVars
    /\ Finally

\* api_utils.py lines 262-273: the fields are there and 0 <= ihc <= 1
RowsInRange(attribution_results) ==
    \A k \in 1..Len(attribution_results) : attribution_results[k].ihc # "out of range"

\* api_utils.py lines 246-280
validate_api_results(attribution_results) ==
    IF ~RowsInRange(attribution_results) THEN FALSE
    ELSE attribution_results # <<>>

\* main.py lines 223-239, 354-356: send_journeys_to_api has returned
AttributionReturns ==
    /\ ppc = "send"
    /\ p_next > Len(p_filtered)
    /\ IF p_results = <<>> \/ ~validate_api_results(p_results)
       THEN Exit(FALSE)
       ELSE ppc' = "store" /\ UNCHANGED p_exit
    /\ UNCHANGED <<p_conversions, p_fault, p_chunks, p_conv_ids, p_filtered, p_next,
                   p_sent, p_results, storeVars>>
    /\ UNCHANGED nonPipeVars
    /\ Finally

\* main.py lines 358-369 with 264-297: the results are inserted, the report is
\* made from the sessions that have attribution rows and exported; an error
\* while exporting, or an empty report, fails the run
StoreResultsAndReport ==
    /\ ppc = "store"
    /\ store' = IF p_results # <<>> THEN ExecuteMany(store, p_results, 1) ELSE store
    /\ insert_calls' = IF p_results # <<>>
                       THEN Append(insert_calls, [results |-> p_results, raised |-> FALSE])
                       ELSE insert_calls
    /\ Exit(p_fault # "export" /\ store' # <<>>)
    /\ UNCHANGED <<p_conversions, p_fault, p_chunks, p_conv_ids, p_filtered, p_next,
                   p_sent, p_results>>
    /\ UNCHANGED nonPipeVars
    /\ Finally

PipeNext ==
    \/ ValidateDates
    \/ SetupDatabase
    \/ ProcessConversions
    \/ CheckAttribution
    \/ PipelineSendChunk
    \/ AttributionReturns
    \/ StoreResultsAndReport

InitPipe == AsmIdle /\ ChunkIdle /\ ValIdle /\ SendIdle /\ PipeInit /\ RunIdle
        /\ ReportIdle
        /\ RunsIdle
        /\ ConnIdle

\* one run of main
SpecPipe == InitPipe /\ [][PipeNext]_vars

(***************************************************************************)
(* Report sink: export_channel_reporting_with_metrics.  A float is         *)
(* [kind, n, d]: the number n/d (d # 0), an infinity with the sign of n,   *)
(* or NaN.                                                                 *)
(***************************************************************************)
Number(n, d) == [kind |-> "number", n |-> n, d |-> d]
Infinity(sign) == [kind |-> "inf", n |-> sign, d |-> 0]
NaN == [kind |-> "nan", n |-> 0, d |-> 0]

\* the rows SELECT * FROM channel_reporting returns: sums of costs (never
\* negative), of ihc shares and of ihc * revenue (a refund is negative)
ReportRows ==
    [cost : 0..MaxAmount, ihc : 0..MaxAmount, ihc_revenue : (-1)..MaxAmount]

ReportTables == UNION {[1..n -> ReportRows] : n \in 0..MaxReportRows}

ReportInit ==
    /\ report_rows \in ReportTables
    /\ rpc = "query"
    /\ report_df = <<>>
    /\ report_csv = <<>>

\* lines 155, 158: the division of two numeric columns, element by element,
\* follows IEEE 754: x/0 is an infinity with the sign of x, 0/0 is NaN, and
\* nothing is raised
Divide(a, b) ==
    IF b # 0 THEN Number(a, b)
    ELSE IF a > 0 THEN Infinity(1)
    ELSE IF a < 0 THEN Infinity(-1)
    ELSE NaN

\* mutant of ReplaceInfinity: the infinities are left in the table
ReplaceInfinity_Keep(x) == x

\* line 161: df.replace([inf, -inf], nan), for one cell
ReplaceInfinity(x) == IF x.kind = "inf" THEN NaN ELSE x

\* line 167: to_csv writes NaN as an empty field (na_rep = '') and an infinity
\* as the text inf or -inf
CsvField(x) ==
    CASE x.kind = "nan" -> [kind |-> "empty", n |-> 0, d |-> 0]
      [] x.kind = "inf" -> [kind |-> "inf text", n |-> x.n, d |-> 0]
      [] OTHER -> x

\* lines 148-152: the query returns no row; the empty table is returned
ReturnEmptyReport ==
    /\ rpc = "query"
    /\ report_rows = <<>>
    /\ report_df' = <<>>
    /\ rpc' = "returned"
    /\ UNCHANGED <<report_rows, report_csv>>
    /\ UNCHANGED nonReportVars

\* line 148: the rows are read into df
ReadReport ==
    /\ rpc = "query"
    /\ report_rows # <<>>
    /\ report_df' = [i \in 1..Len(report_rows) |->
                        [cost |-> report_rows[i].cost,
                         ihc |-> report_rows[i].ihc,
                         ihc_revenue |-> report_rows[i].ihc_revenue,
                         CPO |-> NaN,
                         ROAS |-> NaN]]
    /\ rpc' = "cpo"
    /\ UNCHANGED <<report_rows, report_csv>>
    /\ UNCHANGED nonReportVars

\* line 155: df['CPO'] = df['cost'] / df['ihc']
ComputeCPO ==
    /\ rpc = "cpo"
    /\ report_df' = [i \in 1..Len(report_df) |->
                        [report_df[i] EXCEPT
                            !.CPO = Divide(report_df[i].cost, report_df[i].ihc)]]
    /\ rpc' = "roas"
    /\ UNCHANGED <<report_rows, report_csv>>
    /\ UNCHANGED nonReportVars

\* line 158: df['ROAS'] = df['ihc_revenue'] / df['cost']
ComputeROAS ==
    /\ rpc = "roas"
    /\ report_df' = [i \in 1..Len(report_df) |->
                        [report_df[i] EXCEPT
                            !.ROAS = Divide(report_df[i].ihc_revenue, report_df[i].cost)]]
    /\ rpc' = "replace"
    /\ UNCHANGED <<report_rows, report_csv>>
    /\ UNCHANGED nonReportVars

\* line 161: the infinities of the whole table are replaced (the columns read
\* from the database hold none)
ReplaceInfinities ==
    /\ rpc = "replace"
    /\ report_df' = [i \in 1..Len(report_df) |->
                        [report_df[i] EXCEPT
                            !.CPO = ReplaceInfinity(report_df[i].CPO),
                            !.ROAS = ReplaceInfinity(report_df[i].ROAS)]]
    /\ rpc' = "to_csv"
    /\ UNCHANGED <<report_rows, report_csv>>
    /\ UNCHANGED nonReportVars

\* lines 164-181: the table is written to output_path and returned
ExportCsv ==
    /\ rpc = "to_csv"
    /\ report_csv' = [i \in 1..Len(report_df) |->
                         [cost |-> report_df[i].cost,
                          ihc |-> report_df[i].ihc,
                          ihc_revenue |-> report_df[i].ihc_revenue,
                          CPO |-> CsvField(report_df[i].CPO),
                          ROAS |-> CsvField(report_df[i].ROAS)]]
    /\ rpc' = "returned"
    /\ UNCHANGED <<report_rows, report_df>>
    /\ UNCHANGED nonReportVars

ReportNext ==
    \/ ReturnEmptyReport
    \/ ReadReport
    \/ ComputeCPO
    \/ ComputeROAS
    \/ ReplaceInfinities
    \/ ExportCsv

InitReport == AsmIdle /\ ChunkIdle /\ ValIdle /\ SendIdle /\ StoreIdle /\ PipeIdle
        /\ RunIdle
        /\ ReportInit
        /\ RunsIdle
        /\ ConnIdle

\* one call of export_channel_reporting_with_metrics
SpecReport == InitReport /\ [][ReportNext]_vars

(***************************************************************************)
(* Pipeline runs in a row over one database (main.run_pipeline called once  *)
(* per invocation of the program, each with its own date range).  The       *)
(* tables conversions and session_sources are source data no run writes;    *)
(* table attribution_customer_journey (store) is what the runs share.  The  *)
(* timestamps of this database are all of the required form, and a          *)
(* conversion's date is the instant t of its timestamp.                     *)
(***************************************************************************)
\* the date ranges a run can be given: start_date <= end_date, which
\* validate_dates (main.py lines 103-110) requires
DateRanges == {r \in (1..MaxTime) \X (1..MaxTime) : r[1] <= r[2]}

\* db_utils.py lines 84-100: SELECT * FROM conversions WHERE conv_date >= ?
\* AND conv_date <= ?
get_conversions(table, start_date, end_date) ==
    SelectSeq(table, LAMBDA r : start_date <= r.ts.t /\ r.ts.t <= end_date)

\* journey_builder.py lines 56-60: the rows of the lookup batch that holds
\* row k of the sorted conversions
BatchOf(df, k) ==
    LET first == ((k - 1) \div batch_size) * batch_size + 1
    IN  SubSeq(df, first, Min(first + batch_size - 1, Len(df)))

\* journey_builder.py lines 43-115: build_customer_journeys on the sorted
\* conversions df from row k on, with the claimed set of this call; sess is
\* the order in which the session queries of this call list the rows.  The
\* outcome is the records, or raised.
RECURSIVE BuildFrom(_, _, _, _, _)
BuildFrom(df, k, claimed, out, sess) ==
    IF k > Len(df) THEN [raised |-> FALSE, records |-> out]
    ELSE LET conv == df[k]
             batch == BatchOf(df, k)
             fetched == SelectSeq(sess, LAMBDA r :
                            \E i \in 1..Len(batch) : batch[i].user_id = r.user_id)
             user_sessions == UserSessionsBefore(fetched, conv.user_id, conv.ts)
             unassigned == UnassignedSessions(user_sessions, claimed)
             journey == format_sessions_for_api(unassigned, conv.conv_id, conv.ts)
         IN  IF fetched = <<>> \/ ~validate_timestamp(conv.ts)
             THEN BuildFrom(df, k + 1, claimed, out, sess)
             ELSE IF SeriesMayRaise(TsColumn(fetched))
             THEN [raised |-> TRUE, records |-> <<>>]
             ELSE IF unassigned = <<>>
             THEN BuildFrom(df, k + 1, claimed, out, sess)
             ELSE IF FormatRaises(unassigned)
             THEN [raised |-> TRUE, records |-> <<>>]
             ELSE BuildFrom(df, k + 1,
                            claimed \cup {journey[i].session_id : i \in 1..Len(journey)},
                            out \o journey, sess)

\* journey_builder.py lines 43-46: a call starts with an empty claimed set
build_customer_journeys(df, sess) == BuildFrom(df, 1, {}, <<>>, sess)

\* main.py lines 153-189: what process_conversions can get from the database
\* for a date range: the conversions selected and the outcome of the build
ProcessOutcomes(start_date, end_date) ==
    LET selected == get_conversions(db_conversions, start_date, end_date)
    IN  {[conv_ids |-> {selected[i].conv_id : i \in 1..Len(selected)},
          build |-> build_customer_journeys(df, sess)] :
            df \in SortConversionsByDatetime(selected),
            sess \in get_sessions_for_user(Users)}

\* main.py lines 339-346 over all chunks: the records of the conversions that
\* miss attribution data (chunk_journeys only groups the records)
FilterJourneys(records, missing_conv_ids) ==
    SelectSeq(records, LAMBDA session : session.conversion_id \in missing_conv_ids)

\* api_utils.py lines 140-167: the result rows for the records of the
\* conversions the service answered for
ResultRows(records, answered) ==
    LET kept == SelectSeq(records, LAMBDA session : session.conversion_id \in answered)
    IN  [i \in 1..Len(kept) |->
            [conv_id |-> kept[i].conversion_id,
             session_id |-> kept[i].session_id,
             ihc |-> "ihc"]]

RunsInit ==
    /\ db_conversions \in
           {c \in ConversionTables :
               /\ Malformed(c) = {}
               /\ c # <<>> => c[1].user_id = "u1"}
    /\ runs_done = 0
    /\ run_pc = "idle"
    /\ run_journeys = <<>>
    /\ run_conv_ids = {}
    /\ run_filtered = <<>>

\* the source data of the runs: the Assembler itself is not stepped, the
\* sessions table holds well-formed rows listed by (date, time)
RunsSessions ==
    /\ conversions = <<>>
    /\ conv_columns = <<>>
    /\ session_sources \in
           {s \in SessionTables :
               /\ \A i \in 1..Len(s) : s[i].ts.form = "canon"
               /\ \A i \in 1..(Len(s) - 1) : SessKey(s[i]) <= SessKey(s[i + 1])}
    /\ pc = "idle"
    /\ conversions_df = <<>>
    /\ batch_start = 0
    /\ sessions_df = <<>>
    /\ conv_idx = 0
    /\ assigned_session_ids = {}
    /\ all_journey_sessions = <<>>

\* main.py lines 323-326 with process_conversions returning True: a run
\* starts, selects conversions and builds their journeys
RunProcessConversions ==
    /\ run_pc = "idle"
    /\ runs_done < MaxRuns
    /\ \E r \in DateRanges : \E o \in ProcessOutcomes(r[1], r[2]) :
          /\ o.conv_ids # {}
          /\ ~o.build.raised
          /\ o.build.records # <<>>
          /\ run_journeys' = o.build.records
          /\ run_conv_ids' = o.conv_ids
    /\ run_pc' = "check"
    /\ UNCHANGED <<db_conversions, runs_done, run_filtered, storeVars>>
    /\ UNCHANGED nonRunsVars

\* main.py lines 323-326 with process_conversions returning False (lines
\* 157-159, 167-169, 190-192): the run ends, nothing is stored
RunProcessConversionsFails ==
    /\ run_pc = "idle"
    /\ runs_done < MaxRuns
    /\ \E r \in DateRanges : \E o \in ProcessOutcomes(r[1], r[2]) :
          \/ o.conv_ids = {}
          \/ o.build.raised
          \/ o.build.records = <<>>
    /\ runs_done' = runs_done + 1
    /\ UNCHANGED <<db_conversions, run_pc, run_journeys, run_conv_ids,
                   run_filtered, storeVars>>
    /\ UNCHANGED nonRunsVars

\* main.py lines 332-349: check_attribution_exists and the filter
RunCheckAttribution ==
    /\ run_pc = "check"
    /\ run_filtered' = FilterJourneys(run_journeys, MissingConvIds(run_conv_ids, store))
    /\ run_pc' = IF run_filtered' = <<>> THEN "store" ELSE "send"
    /\ UNCHANGED <<db_conversions, runs_done, run_journeys, run_conv_ids, storeVars>>
    /\ UNCHANGED nonRunsVars

\* main.py lines 350-353 and 359-365: the service answers for some of the
\* conversions sent, and the result rows are inserted
RunAttribution ==
    /\ run_pc = "send"
    /\ \E answered \in SUBSET {run_filtered[i].conversion_id : i \in 1..Len(run_filtered)} :
          /\ answered # {}
          /\ store' = ExecuteMany(store, ResultRows(run_filtered, answered), 1)
    /\ run_pc' = "idle"
    /\ runs_done' = runs_done + 1
    /\ run_journeys' = <<>>
    /\ run_conv_ids' = {}
    /\ run_filtered' = <<>>
    /\ UNCHANGED <<db_conversions, insert_calls>>
    /\ UNCHANGED nonRunsVars

\* main.py lines 353-356: process_attribution returns False (no credentials,
\* no results), the run ends
RunAttributionFails ==
    /\ run_pc = "send"
    /\ run_pc' = "idle"
    /\ runs_done' = runs_done + 1
    /\ run_journeys' = <<>>
    /\ run_conv_ids' = {}
    /\ run_filtered' = <<>>
    /\ UNCHANGED <<db_conversions, storeVars>>
    /\ UNCHANGED nonRunsVars

\* main.py lines 359-365 with attribution_results empty: nothing is inserted
RunStoreNothing ==
    /\ run_pc = "store"
    /\ run_pc' = "idle"
    /\ runs_done' = runs_done + 1
    /\ run_journeys' = <<>>
    /\ run_conv_ids' = {}
    /\ run_filtered' = <<>>
    /\ UNCHANGED <<db_conversions, storeVars>>
    /\ UNCHANGED nonRunsVars

RunsNext ==
    \/ RunProcessConversions
    \/ RunProcessConversionsFails
    \/ RunCheckAttribution
    \/ RunAttribution
    \/ RunAttributionFails
    \/ RunStoreNothing

InitRuns == RunsSessions /\ ChunkIdle /\ ValIdle /\ SendIdle /\ StoreInit /\ PipeIdle
        /\ RunIdle
        /\ ReportIdle
        /\ RunsInit
        /\ ConnIdle

\* pipeline runs in a row over one database
SpecRuns == InitRuns /\ [][RunsNext]_vars

(***************************************************************************)
(* Properties of the Journey Assembler.                                    *)
(***************************************************************************)
\* the row of the conversions table with this conv_id
ConvRow(id) == CHOOSE r \in Range(conversions) : r.conv_id = id
\* the row of session_sources with this session_id
SessRow(id) == CHOOSE r \in Range(session_sources) : r.session_id = id

Records == 1..Len(all_journey_sessions)
Rec(i) == all_journey_sessions[i]
\* the records of one conversion
RecordsOf(id) == {i \in Records : Rec(i).conversion_id = id}
OutputConvIds == {Rec(i).conversion_id : i \in Records}
\* the row of conversions_df a conversion is at, once sorted
DfPos(id) == CHOOSE k \in 1..Len(conversions_df) : conversions_df[k].conv_id = id
\* the lookup batch (0-based) of a row of conversions_df
LookupBatch(k) == (k - 1) \div batch_size

\* C1 Exclusivity: the records of two distinct conversions share no
\* session_id, at every point of a run and in its output.
C1_Exclusivity ==
    \A i, j \in Records :
        Rec(i).conversion_id # Rec(j).conversion_id
            => Rec(i).session_id # Rec(j).session_id

\* C1 witness: a finished run in which two conversions of one user, looked up
\* in different batches, both got a journey, and a session of the first one's
\* journey also lies before the second conversion.
C1_Witness ==
    /\ pc = "done"
    /\ \E i, j \in Records :
          LET a == ConvRow(Rec(i).conversion_id)
              b == ConvRow(Rec(j).conversion_id)
          IN  /\ a.conv_id # b.conv_id
              /\ a.user_id = b.user_id
              /\ LookupBatch(DfPos(a.conv_id)) # LookupBatch(DfPos(b.conv_id))
              /\ to_datetime(Rec(i).timestamp) < to_datetime(b.ts)

\* C2 Single conversion marker: every conversion_id of the output has exactly
\* one record with conversion = 1.
C2_SingleMarker ==
    \A id \in OutputConvIds :
        Cardinality({i \in RecordsOf(id) : Rec(i).conversion = 1}) = 1

\* C2 witness: a finished run with a journey whose two latest sessions share
\* the latest timestamp.
C2_Witness ==
    /\ pc = "done"
    /\ \E i, j \in Records :
          /\ i # j
          /\ Rec(i).conversion_id = Rec(j).conversion_id
          /\ Rec(i).timestamp = Rec(j).timestamp
          /\ \A k \in RecordsOf(Rec(i).conversion_id) :
                to_datetime(Rec(k).timestamp) <= to_datetime(Rec(i).timestamp)

\* C3 Temporal precedence: no record is after its conversion's conv_timestamp,
\* and every record that is not the conversion session is strictly before it.
C3_TemporalPrecedence ==
    \A i \in Records :
        LET conv_t == to_datetime(ConvRow(Rec(i).conversion_id).ts)
            t == to_datetime(Rec(i).timestamp)
        IN  /\ t <= conv_t
            /\ Rec(i).conversion # 1 => t < conv_t

\* C3 witness: a finished run with a journey of two records or more whose user
\* also has a session at the conversion's instant, left out of the journey.
C3_Witness ==
    /\ pc = "done"
    /\ \E id \in OutputConvIds :
          /\ Cardinality(RecordsOf(id)) >= 2
          /\ \E k \in 1..Len(session_sources) :
                /\ session_sources[k].user_id = ConvRow(id).user_id
                /\ to_datetime(session_sources[k].ts) = to_datetime(ConvRow(id).ts)
                /\ \A i \in Records : Rec(i).session_id # session_sources[k].session_id

\* Scenario 1: one conversion of u1 at instant 2, sessions S1 at 0 and S2 at 1
ScenarioOne ==
    /\ conversions = <<[conv_id |-> 1, user_id |-> "u1", ts |-> Canon(2)]>>
    /\ session_sources = <<[session_id |-> 1, user_id |-> "u1", ts |-> Canon(0)],
                           [session_id |-> 2, user_id |-> "u1", ts |-> Canon(1)]>>

\* C4 Conversion session: the record marked conversion = 1 has the greatest
\* timestamp among the records of its conversion; in Scenario 1 the output is
\* the two records S1, S2 with S2 marked.
C4_MarkerIsLatest ==
    /\ \A i, j \in Records :
          (Rec(i).conversion = 1 /\ Rec(j).conversion_id = Rec(i).conversion_id)
              => to_datetime(Rec(j).timestamp) <= to_datetime(Rec(i).timestamp)
    /\ (pc = "done" /\ ScenarioOne) =>
          all_journey_sessions =
              <<[conversion_id |-> 1, session_id |-> 1, timestamp |-> Canon(0),
                 conversion |-> 0],
                [conversion_id |-> 1, session_id |-> 2, timestamp |-> Canon(1),
                 conversion |-> 1]>>

\* C4 witness: Scenario 1 has run to its end.
C4_Witness == pc = "done" /\ ScenarioOne

\* Scenario 2: the table lists C1 (instant 2) before C2 (instant 1), both of
\* u1, whose only session S2 is at instant 0
ScenarioTwo ==
    /\ conversions = <<[conv_id |-> 1, user_id |-> "u1", ts |-> Canon(2)],
                       [conv_id |-> 2, user_id |-> "u1", ts |-> Canon(1)]>>
    /\ session_sources = <<[session_id |-> 1, user_id |-> "u1", ts |-> Canon(0)]>>

\* a well-formed conversion of the same user that is strictly earlier than
\* conversion b and strictly later than instant t
EarlierClaimant(b, t) ==
    \E k \in 1..Len(conversions) :
        LET a == conversions[k]
        IN  /\ a.user_id = b.user_id
            /\ validate_timestamp(a.ts)
            /\ to_datetime(a.ts) < to_datetime(b.ts)
            /\ t < to_datetime(a.ts)

\* C5 First claim: the conversions are processed in ascending conv_timestamp
\* order whatever the row order of the table (the sorted table is ascending and
\* so is the order in which journeys are appended); a conversion never gets a
\* session that an earlier conversion of the user could claim or has claimed;
\* a conversion all of whose earlier sessions go to earlier conversions gets no
\* journey (Scenario 2: all records are C2's).
C5_FirstClaim ==
    /\ pc \notin {"sort", "raised"} =>
          /\ \A k \in 1..(Len(conversions_df) - 1) :
                ConvDatetime(conversions_df[k]) <= ConvDatetime(conversions_df[k + 1])
          /\ Len(conversions_df) = Len(conversions)
          /\ Range(conversions_df) = Range(conversions)
    /\ \A i, j \in Records :
          i < j => /\ to_datetime(ConvRow(Rec(i).conversion_id).ts)
                        <= to_datetime(ConvRow(Rec(j).conversion_id).ts)
                   /\ Rec(i).conversion_id # Rec(j).conversion_id
                        => Rec(i).session_id # Rec(j).session_id
    /\ \A i \in Records :
          ~EarlierClaimant(ConvRow(Rec(i).conversion_id),
                           to_datetime(Rec(i).timestamp))
    /\ pc = "done" =>
          \A k \in 1..Len(conversions) :
              (\A n \in 1..Len(session_sources) :
                  (/\ session_sources[n].user_id = conversions[k].user_id
                   /\ OccurredBefore(session_sources[n].ts, conversions[k].ts))
                      => EarlierClaimant(conversions[k],
                                         to_datetime(session_sources[n].ts)))
                  => RecordsOf(conversions[k].conv_id) = {}
    /\ (pc = "done" /\ ScenarioTwo) =>
          all_journey_sessions =
              <<[conversion_id |-> 2, session_id |-> 1, timestamp |-> Canon(0),
                 conversion |-> 1]>>

\* C5 witness: Scenario 2 has run to its end.
C5_Witness == pc = "done" /\ ScenarioTwo

\* C16 Malformed timestamps are non-fatal: build_customer_journeys never
\* raises; conversions and sessions with a malformed timestamp are in no
\* record; and at the end every well-formed session that lies before a
\* well-formed conversion of its user is in some journey, as it is when the
\* malformed rows are not there.
C16_MalformedNonFatal ==
    /\ pc # "raised"
    /\ \A i \in Records :
          /\ validate_timestamp(ConvRow(Rec(i).conversion_id).ts)
          /\ validate_timestamp(Rec(i).timestamp)
    /\ pc = "done" =>
          \A k \in 1..Len(conversions), n \in 1..Len(session_sources) :
              (/\ validate_timestamp(conversions[k].ts)
               /\ validate_timestamp(session_sources[n].ts)
               /\ session_sources[n].user_id = conversions[k].user_id
               /\ strptime(session_sources[n].ts) < strptime(conversions[k].ts))
                  => \E i \in Records : Rec(i).session_id = session_sources[n].session_id


\* the allocation a result stands for: which session went to which conversion,
\* and which sessions are marked as conversion sessions
Allocation(records) ==
    {<<records[i].session_id, records[i].conversion_id, records[i].conversion>> :
        i \in 1..Len(records)}

\* both calls have returned
BothRunsDone == run = 2 /\ pc = "done"

\* C19 Deterministic allocation: when two runs over the same conversions and
\* sessions, supplied in any row order, have both returned, they have assigned
\* the same sessions to the same conversions and marked the same conversion
\* sessions.
C19_DeterministicAllocation ==
    BothRunsDone => Allocation(all_journey_sessions) = Allocation(first_result)

\* C20 No input is mutated: no step of build_customer_journeys changes the
\* rows, the row order or the columns of the caller's conversions table or the
\* session data, and no step of chunk_journeys changes the records it was
\* handed.
C20_InputsUnchanged ==
    [][/\ conversions' = conversions
       /\ conv_columns' = conv_columns
       /\ session_sources' = session_sources
       /\ journeys' = journeys]_vars

\* The unbatched algorithm: the sorted conversions df are processed one by one
\* from row k on, each against the sessions of its user as listed in sess, with
\* the run-wide claimed set; infer tells whether the build of pandas infers one
\* format for a whole column.  The outcome is the records, or raised.
RECURSIVE OneByOneFrom(_, _, _, _, _, _)
OneByOneFrom(df, k, claimed, out, sess, infer) ==
    IF k > Len(df) THEN [raised |-> FALSE, records |-> out]
    ELSE LET conv == df[k]
             fetched == SelectSeq(sess, LAMBDA r : r.user_id = conv.user_id)
             user_sessions == UserSessionsBefore(fetched, conv.user_id, conv.ts)
             unassigned == UnassignedSessions(user_sessions, claimed)
             journey == format_sessions_for_api(unassigned, conv.conv_id, conv.ts)
         IN  IF fetched = <<>> \/ ~validate_timestamp(conv.ts)
             THEN OneByOneFrom(df, k + 1, claimed, out, sess, infer)
             ELSE IF \/ SeriesMustRaise(TsColumn(fetched))
                     \/ infer /\ SeriesMayRaise(TsColumn(fetched))
             THEN [raised |-> TRUE, records |-> <<>>]
             ELSE IF unassigned = <<>>
             THEN OneByOneFrom(df, k + 1, claimed, out, sess, infer)
             ELSE IF FormatRaises(unassigned)
             THEN [raised |-> TRUE, records |-> <<>>]
             ELSE OneByOneFrom(df, k + 1,
                               claimed \cup {journey[i].session_id : i \in 1..Len(journey)},
                               out \o journey, sess, infer)

\* what the unbatched algorithm can end with on the sorted conversions df
OneByOneOutcomes(df) ==
    {OneByOneFrom(df, 1, {}, <<>>, sess, infer) :
        sess \in get_sessions_for_user(Users), infer \in BOOLEAN}

\* the run got past the sort of the conversions and has ended
LoopEnded == pc = "done" \/ (pc = "raised" /\ conversions_df # <<>>)

\* C21 Lookup batch size: a run that fetches the sessions by lookup batches
\* ends as the unbatched algorithm can end on the same sorted conversions: with
\* the same sequence of journey records, and raising only if that one raises.
C21_BatchSizeIrrelevant ==
    LoopEnded =>
        [raised |-> pc = "raised",
         records |-> IF pc = "raised" THEN <<>> ELSE all_journey_sessions]
            \in OneByOneOutcomes(conversions_df)

\* the sessions the conversion the loop is at can take: those of its user that
\* are strictly before it and not claimed yet
EligibleSessions ==
    {n \in 1..Len(session_sources) :
        /\ session_sources[n].user_id = Conversion.user_id
        /\ session_sources[n].ts.form # "bad"
        /\ to_datetime(session_sources[n].ts) < to_datetime(Conversion.ts)
        /\ session_sources[n].session_id \notin assigned_session_ids}

\* the loop is at a conversion with a well-formed timestamp and no eligible
\* session
AtEmptySelection ==
    /\ pc = "conv"
    /\ validate_timestamp(Conversion.ts)
    /\ EligibleSessions = {}

\* C23 Empty selection: the step taken at a conversion that has no eligible
\* session emits no record, leaves the claimed set and the records emitted so
\* far as they are, and goes on to the next conversion (or the next lookup
\* batch); it does not end the run.
C23_EmptySelectionSkipped ==
    [][AtEmptySelection =>
          /\ all_journey_sessions' = all_journey_sessions
          /\ assigned_session_ids' = assigned_session_ids
          /\ \/ pc' = "conv" /\ conv_idx' = conv_idx + 1
             \/ pc' = "fetch" /\ batch_start' = batch_start + batch_size]_vars

\* C24 Order within a group: in the output the records of one conversion are
\* next to each other and in ascending order of their timestamps, and the
\* record marked as the conversion session has the timestamp of the last
\* record of its group.
C24_GroupOrder ==
    pc = "done" =>
        /\ \A i, j, k \in Records :
              (i < j /\ j < k /\ Rec(i).conversion_id = Rec(k).conversion_id)
                  => Rec(j).conversion_id = Rec(i).conversion_id
        /\ \A i, j \in Records :
              (i < j /\ Rec(i).conversion_id = Rec(j).conversion_id)
                  => /\ strptime(Rec(i).timestamp) <= strptime(Rec(j).timestamp)
                     /\ Rec(i).conversion = 1
                            => strptime(Rec(i).timestamp) = strptime(Rec(j).timestamp)

\* every timestamp of the input is 'YYYY-MM-DD HH:MM:SS', and the conversions
\* of one user have distinct timestamps
WellFormedDistinct ==
    /\ Malformed(conversions) = {}
    /\ Malformed(session_sources) = {}
    /\ \A i, j \in 1..Len(conversions) :
          (i # j /\ conversions[i].user_id = conversions[j].user_id)
              => conversions[i].ts.t # conversions[j].ts.t

\* conversion row c comes after session row s and belongs to the same user
LaterConversion(c, s) ==
    /\ c.user_id = s.user_id
    /\ s.ts.t < c.ts.t

\* a record of the output gives session row s to conversion row c
AssignedTo(s, c) ==
    \E i \in Records : /\ Rec(i).session_id = s.session_id
                       /\ Rec(i).conversion_id = c.conv_id

\* C27 Allocation rule: on well-formed data in which the conversions of a user
\* have distinct timestamps the run returns, and its output gives a session to
\* a conversion exactly when that conversion is the earliest one of the
\* session's user that is strictly after the session; so a session with no
\* later conversion is in no journey and a session with one is in a journey.
C27_AllocationRule ==
    WellFormedDistinct =>
        /\ pc # "raised"
        /\ pc = "done" =>
              \A s \in Range(session_sources), c \in Range(conversions) :
                  AssignedTo(s, c) <=>
                      /\ LaterConversion(c, s)
                      /\ \A b \in Range(conversions) :
                            LaterConversion(b, s) => c.ts.t <= b.ts.t

\* C27 witness: a finished run on such data in which a user has two
\* conversions, each with a session of its own, and a session after both.
C27_Witness ==
    /\ pc = "done"
    /\ WellFormedDistinct
    /\ \E a, b \in Range(conversions), s, t, u \in Range(session_sources) :
          /\ a.user_id = b.user_id /\ a.ts.t < b.ts.t
          /\ AssignedTo(s, a)
          /\ AssignedTo(t, b)
          /\ u.user_id = a.user_id /\ u.ts.t >= b.ts.t

(***************************************************************************)
(* Properties of the Journey Batcher.                                      *)
(***************************************************************************)
\* the distinct conversion_id of a list of records
ConvIdsOf(records) == {records[i].conversion_id : i \in 1..Len(records)}
\* the records of conversion id among the input of chunk_journeys, in order
InputGroup(id) == SelectSeq(journeys, LAMBDA r : r.conversion_id = id)
\* the batches built so far: the closed ones and, while the packing loop runs,
\* the open one
Batches ==
    IF cpc = "pack" /\ current_chunk # <<>> THEN Append(chunks, current_chunk) ELSE chunks

\* C6 Chunk bounds: every batch has at most max_journeys_per_chunk distinct
\* conversion_id and at most max_sessions_per_chunk records, unless it consists
\* of exactly one conversion group that alone exceeds max_sessions_per_chunk;
\* a group that large sits alone in its batch, and the call always proceeds to
\* its return.
C6_ChunkBounds ==
    /\ \A k \in 1..Len(Batches) :
          LET batch == Batches[k]
          IN  \/ /\ Cardinality(ConvIdsOf(batch)) <= max_journeys_per_chunk
                 /\ Len(batch) <= max_sessions_per_chunk
              \/ \E id \in ConvIdsOf(batch) :
                    /\ batch = InputGroup(id)
                    /\ Len(InputGroup(id)) > max_sessions_per_chunk
    /\ cpc = "done" =>
          \A id \in ConvIdsOf(journeys) :
              Len(InputGroup(id)) > max_sessions_per_chunk
                  => \E k \in 1..Len(chunks) : chunks[k] = InputGroup(id)
    /\ cpc \in {"group", "pack"} => ENABLED ChunkNext

\* C6 witness: a finished call that returned several batches, one of them a
\* single conversion group larger than max_sessions_per_chunk.
C6_Witness ==
    /\ cpc = "done"
    /\ Len(chunks) >= 2
    /\ \E k \in 1..Len(chunks) :
          /\ Len(chunks[k]) > max_sessions_per_chunk
          /\ Cardinality(ConvIdsOf(chunks[k])) = 1

\* C7 Chunk atomicity: no conversion_id occurs in two batches, and in the
\* result the batch holding a conversion_id holds all its records, also when
\* they are not next to each other in the input.
C7_ChunkAtomicity ==
    /\ \A k, m \in 1..Len(Batches) :
          k # m => ConvIdsOf(Batches[k]) \cap ConvIdsOf(Batches[m]) = {}
    /\ cpc = "done" =>
          \A id \in ConvIdsOf(journeys) :
              \E k \in 1..Len(chunks) :
                  SelectSeq(chunks[k], LAMBDA r : r.conversion_id = id) = InputGroup(id)

\* C7 witness: a finished call with several batches whose input holds a
\* conversion with a record of another conversion between two of its records.
C7_Witness ==
    /\ cpc = "done"
    /\ Len(chunks) >= 2
    /\ \E i, j, k \in 1..Len(journeys) :
          /\ i < j /\ j < k
          /\ journeys[i].conversion_id = journeys[k].conversion_id
          /\ journeys[j].conversion_id # journeys[i].conversion_id

\* ceil(n / m)
CeilDiv(n, m) == (n + m - 1) \div m

\* every conversion of the input has one record and the session limit cannot
\* bind before the journey limit
OneSessionJourneys ==
    /\ \A i, j \in 1..Len(journeys) :
          i # j => journeys[i].conversion_id # journeys[j].conversion_id
    /\ max_sessions_per_chunk >= max_journeys_per_chunk

\* C8 Greedy packing: the packing loop closes a batch and starts a new one
\* only when the next group would take the batch over max_journeys_per_chunk
\* journeys or over max_sessions_per_chunk records, and otherwise appends the
\* group to the batch; hence n one-session journeys give ceil(n/m) batches for
\* max_journeys_per_chunk = m, all of m journeys but possibly the last.
C8_GreedyPacking ==
    /\ [][(cpc = "pack" /\ cpc' = "pack") =>
            LET n == Len(journey_groups[next_group].sessions)
                over == \/ current_chunk_journeys + 1 > max_journeys_per_chunk
                        \/ current_chunk_sessions + n > max_sessions_per_chunk
            IN  /\ chunks' # chunks => over
                /\ ~over => current_chunk' =
                                current_chunk \o journey_groups[next_group].sessions
                /\ over => /\ current_chunk' = journey_groups[next_group].sessions
                           /\ current_chunk # <<>> => chunks' = Append(chunks, current_chunk)
         ]_vars
    /\ []((cpc = "done" /\ OneSessionJourneys) =>
            LET n == Len(journeys)
                m == max_journeys_per_chunk
            IN  /\ Len(chunks) = CeilDiv(n, m)
                /\ \A k \in 1..Len(chunks) :
                      Len(chunks[k]) = IF k < Len(chunks) THEN m ELSE n - m * (Len(chunks) - 1))

\* C8 witness: a finished call on one-session journeys, more than twice
\* max_journeys_per_chunk of them and not a multiple of it, as in 250 journeys
\* for a limit of 100.
C8_Witness ==
    /\ cpc = "done"
    /\ OneSessionJourneys
    /\ Len(journeys) > 2 * max_journeys_per_chunk
    /\ Len(journeys) % max_journeys_per_chunk # 0
    /\ max_journeys_per_chunk >= 2

\* the conversion ids of a list of records in the order of their first record
RECURSIVE FirstSeen(_)
FirstSeen(records) ==
    IF records = <<>> THEN <<>>
    ELSE LET front == FirstSeen(SubSeq(records, 1, Len(records) - 1))
             id == records[Len(records)].conversion_id
         IN  IF \E k \in 1..Len(front) : front[k] = id THEN front
             ELSE Append(front, id)

\* the groups of the input of chunk_journeys, one after the other, for the
\* conversion ids listed
RECURSIVE GroupsInOrder(_)
GroupsInOrder(ids) ==
    IF ids = <<>> THEN <<>>
    ELSE InputGroup(Head(ids)) \o GroupsInOrder(Tail(ids))

\* C26 Nothing lost, nothing duplicated: the batches chunk_journeys returns,
\* concatenated in order, are the input records grouped by conversion_id, the
\* groups in first-seen order and each group in input order (so every input
\* record occurs exactly once); no batch is empty, and an empty input gives no
\* batch.
C26_ChunksPartitionInput ==
    cpc = "done" =>
        /\ Flatten(chunks) = GroupsInOrder(FirstSeen(journeys))
        /\ Len(Flatten(chunks)) = Len(journeys)
        /\ \A r \in Range(journeys) :
              Cardinality({i \in 1..Len(Flatten(chunks)) : Flatten(chunks)[i] = r}) = 1
        /\ \A k \in 1..Len(chunks) : chunks[k] # <<>>
        /\ journeys = <<>> => chunks = <<>>

\* C26 witness: a finished call with several batches on an input in which the
\* records of a conversion are not next to each other.
C26_Witness ==
    /\ cpc = "done"
    /\ Len(chunks) >= 2
    /\ Flatten(chunks) # journeys
    /\ Flatten(chunks) = GroupsInOrder(FirstSeen(journeys))

(***************************************************************************)
(* Properties of the Journey Validator.                                    *)
(***************************************************************************)
\* what the validator is to accept: every record has the required fields, its
\* four text fields are text, its flags that are present are 0 or 1, and every
\* conversion_id has a record with conversion = 1
WellFormedJourneys(journey_list) ==
    /\ \A i \in 1..Len(journey_list) :
          LET r == journey_list[i]
          IN  /\ \A f \in Range(required_fields) : r[f] # Absent
              /\ \A f \in Range(text_fields) : r[f].kind = "str"
              /\ \A f \in Range(flag_fields) : r[f] # Absent => r[f] \in {IntVal("0"), IntVal("1")}
    /\ \A i \in 1..Len(journey_list) :
          \E j \in 1..Len(journey_list) :
              /\ journey_list[j]["conversion_id"] = journey_list[i]["conversion_id"]
              /\ journey_list[j]["conversion"] = IntVal("1")

\* C9 Validator: validate_journey_data returns true exactly for the lists in
\* which every record has all required fields, text in the four text fields,
\* 0 or 1 in every flag that is present, and every conversion_id has a record
\* with conversion = 1; one violation anywhere makes the result false.
C9_ValidatorExact ==
    val_pc = "returned" => (val_result = WellFormedJourneys(val_journeys))

\* C9 witness: the validator has rejected a list of several records, all but
\* one of which have every field right, and whose journeys all have a
\* conversion session.
C9_Witness ==
    /\ val_pc = "returned"
    /\ val_result = FALSE
    /\ Len(val_journeys) >= 2
    /\ \E i \in 1..Len(val_journeys) :
          /\ i > 1
          /\ ~WellFormedJourneys(<<val_journeys[i]>>)
          /\ WellFormedJourneys(SubSeq(val_journeys, 1, i - 1)
                                    \o SubSeq(val_journeys, i + 1, Len(val_journeys)))

(***************************************************************************)
(* Properties of the sender.                                               *)
(***************************************************************************)
\* the chunks the events of one type are about
ChunksWith(type) == {events[k].chunk : k \in {j \in 1..Len(events) : events[j].type = type}}

\* C10 Fail closed: compute_ihc is called, and a request is made, only with a
\* chunk for which validate_journey_data returns true; a chunk that fails
\* validation adds no rows to the results; and when process_conversions
\* rejects the journeys nothing is sent at all.
C10_InvalidNeverSent ==
    /\ \A k \in 1..Len(events) :
          validate_journey_data(journey_chunks[events[k].chunk])
    /\ \A r \in Range(all_results) :
          \E i \in ChunksWith("extend") :
              /\ validate_journey_data(journey_chunks[i])
              /\ \E k \in 1..Len(journey_chunks[i]) :
                    r.session_id = journey_chunks[i][k]["session_id"].v
    /\ (caller = "run_pipeline" /\ ~validate_journey_data(Flatten(journey_chunks)))
           => events = <<>> /\ all_results = <<>>

\* C10 witness: the sender has returned; it was handed a chunk that fails
\* validation and after it a chunk that passes; the second was sent and its
\* rows are in the results, the first was never sent.
C10_Witness ==
    /\ spc = "done"
    /\ Len(journey_chunks) = 2
    /\ ~validate_journey_data(journey_chunks[1])
    /\ validate_journey_data(journey_chunks[2])
    /\ ChunksWith("request") = {2}
    /\ all_results # <<>>

\* send_journeys_to_api was called and has returned (run_pipeline does not
\* call it when process_conversions fails)
GateFailed ==
    /\ caller = "run_pipeline"
    /\ \/ Flatten(journey_chunks) = <<>>
       \/ ~validate_journey_data(Flatten(journey_chunks))
SenderReturned == spc = "done" /\ ~GateFailed

\* the requests made for batch i, in order
RequestsOf(i) == SelectSeq(gateway_log, LAMBDA g : g.chunk = i)

\* batch i succeeded: it passes validation and the last request made for it was
\* answered with statusCode 200 or 206 and triples that have all their keys
BatchSucceeded(i) ==
    /\ validate_journey_data(journey_chunks[i])
    /\ RequestsOf(i) # <<>>
    /\ LET last == RequestsOf(i)[Len(RequestsOf(i))]
       IN  /\ last.outcome = "ok"
           /\ last.response.statusCode \in {200, 206}
           /\ \A k \in 1..Len(last.response.value) :
                 last.response.value[k].ihc # "missing"

\* the result rows of batch i: one per triple of the response
RowsOfBatch(i) ==
    LET value == RequestsOf(i)[Len(RequestsOf(i))].response.value
    IN  [k \in 1..Len(value) |->
            [conv_id |-> value[k].conversion_id, session_id |-> value[k].session_id,
             ihc |-> value[k].ihc]]

\* the rows of the batches i..n that succeeded, in batch order
RECURSIVE RowsFrom(_, _)
RowsFrom(i, n) ==
    IF i > n THEN <<>>
    ELSE (IF BatchSucceeded(i) THEN RowsOfBatch(i) ELSE <<>>) \o RowsFrom(i + 1, n)

\* batch i was attempted: compute_ihc was called with it or it was rejected
Attempted(i) ==
    \/ \E k \in 1..Len(events) : events[k] = Event("compute_ihc", i)
    \/ \E k \in 1..Len(error_log) : error_log[k].chunk = i

\* C11 Isolated batch failure: the sender never stops before its end (it does
\* not raise); when it has returned, every batch was attempted, the batches
\* were taken in order, and the returned rows are the rows of the batches that
\* succeeded, in batch order.
C11_IsolatedFailure ==
    /\ spc \in {"loop", "compute_ihc"} => ENABLED SendNext
    /\ \A k \in 1..(Len(events) - 1) : events[k].chunk <= events[k + 1].chunk
    /\ \A k \in 1..(Len(error_log) - 1) : error_log[k].chunk <= error_log[k + 1].chunk
    /\ SenderReturned =>
          /\ \A i \in 1..Len(journey_chunks) : Attempted(i)
          /\ all_results = RowsFrom(1, Len(journey_chunks))

\* C11 witness: the sender has returned from two batches: the first failed
\* at the Gateway after a retry, the second succeeded and its rows are the
\* result.
C11_Witness ==
    /\ SenderReturned
    /\ Len(journey_chunks) = 2
    /\ Len(RequestsOf(1)) >= 2
    /\ ~BatchSucceeded(1)
    /\ BatchSucceeded(2)
    /\ all_results = RowsOfBatch(2)
    /\ all_results # <<>>

\* the requests and retry sleeps of batch i, in order
RetryTrace(i) ==
    SelectSeq(events, LAMBDA e : e.chunk = i /\ e.type \in {"request", "retry_sleep"})

\* a request that succeeded: HTTP success and statusCode 200 or 206
Succeeded(g) == g.outcome = "ok" /\ g.response.statusCode \in {200, 206}
\* a request that failed in transport or with another statusCode
FailedRequest(g) == g.outcome \in {"RequestException", "ValueError"}

\* the sender is past batch i
BatchOver(i) == i < chunk_i \/ SenderReturned

\* C12 Bounded retry: for every batch, at most max_retries requests are sent
\* and none after a request that succeeded; once the batch is over, its
\* requests and retry sleeps alternate, starting and ending with a request (a
\* sleep after each failed request that is followed by another, none after
\* the last); and when max_retries requests have failed the error raised and
\* logged for the batch is that of the last request, the batch adds no rows,
\* and the batches after it are still taken.
C12_BoundedRetry ==
    \A i \in 1..Len(journey_chunks) :
        LET R == RequestsOf(i)
            T == RetryTrace(i)
        IN  /\ Len(R) <= max_retries
            /\ \A k \in 1..(Len(R) - 1) : ~Succeeded(R[k])
            /\ BatchOver(i) =>
                  /\ Len(T) = IF R = <<>> THEN 0 ELSE 2 * Len(R) - 1
                  /\ \A k \in 1..Len(T) :
                        T[k].type = IF k % 2 = 1 THEN "request" ELSE "retry_sleep"
            /\ (BatchOver(i) /\ max_retries >= 1 /\ Len(R) = max_retries
                    /\ FailedRequest(R[Len(R)])) =>
                  /\ \E k \in 1..Len(error_log) :
                        error_log[k] = ErrorLine(i, R[Len(R)].outcome)
                  /\ ~\E k \in 1..Len(events) : events[k] = Event("extend", i)
                  /\ SenderReturned => \A j \in (i + 1)..Len(journey_chunks) : Attempted(j)

\* C12 witness: the sender has returned; the first batch had max_retries >= 2
\* requests, all failed, the last with another error than the first, and the
\* second batch succeeded at its second request.
C12_Witness ==
    /\ SenderReturned
    /\ Len(journey_chunks) = 2
    /\ max_retries >= 2
    /\ Len(RequestsOf(1)) = max_retries
    /\ RequestsOf(1)[1].outcome = "ValueError"
    /\ RequestsOf(1)[max_retries].outcome = "RequestException"
    /\ Len(RequestsOf(2)) = 2
    /\ BatchSucceeded(2)

\* the positions of the requests in events
RequestPositions == {k \in 1..Len(events) : events[k].type = "request"}

\* C13 Rate limit between batches: with a delay that can be waited
\* (rate_limit_delay >= 0), between the last request for one batch and the
\* first request for the next batch that has one there is a rate-limit sleep,
\* whatever the outcome of the first of the two.
C13_RateLimitBetweenBatches ==
    rate_limit_delay >= 0 =>
        \A k, l \in RequestPositions :
            (k < l /\ events[k].chunk # events[l].chunk) =>
                \E m \in (k + 1)..(l - 1) : events[m].type = "rate_limit_sleep"

(***************************************************************************)
(* Properties of the result sink.                                          *)
(***************************************************************************)
\* the triples handed over in the calls that returned
InsertedTriples ==
    UNION {Range(insert_calls[c].results) :
              c \in {k \in 1..Len(insert_calls) : ~insert_calls[k].raised}}

\* the stored rows for a (conv_id, session_id)
StoredRows(conv_id, session_id) ==
    {k \in 1..Len(store) : store[k].conv_id = conv_id /\ store[k].session_id = session_id}

\* C14 Idempotent re-ingestion: the store holds at most one row per
\* (conv_id, session_id), and exactly one for every triple that was inserted,
\* however often and in however many calls.
C14_IdempotentInsert ==
    /\ \A k, l \in 1..Len(store) :
          (store[k].conv_id = store[l].conv_id /\ store[k].session_id = store[l].session_id)
              => k = l
    /\ \A t \in InsertedTriples : Cardinality(StoredRows(t.conv_id, t.session_id)) = 1

\* C14 witness: the same triple was inserted twice in one call and once more in
\* a second call, and one row is stored for it.
C14_Witness ==
    /\ Len(insert_calls) = 2
    /\ ~insert_calls[1].raised /\ ~insert_calls[2].raised
    /\ Len(insert_calls[1].results) = 2
    /\ insert_calls[1].results[1] = insert_calls[1].results[2]
    /\ insert_calls[2].results = <<insert_calls[1].results[1]>>
    /\ store = <<insert_calls[1].results[1]>>

(***************************************************************************)
(* Properties of run_pipeline.                                             *)
(***************************************************************************)
\* conv_id has a row in attribution_customer_journey
Attributed(conv_id) == \E k \in 1..Len(store) : store[k].conv_id = conv_id

\* the conversions of the run that have a journey
WithJourney ==
    {p_conversions[i].conv_id :
        i \in {k \in 1..Len(p_conversions) : p_conversions[k].kind \in {"ok", "bad_record"}}}

\* C15 Re-run is a no-op: a chunk handed to the Gateway holds only records of
\* conversions without a stored attribution row; and while every conversion
\* that has a journey has a stored row, no step hands anything to the Gateway
\* or adds a row.
C15_RerunNoOp ==
    [][/\ p_sent' # p_sent =>
             \A k \in 1..Len(p_sent'[Len(p_sent')]) :
                 ~Attributed(p_sent'[Len(p_sent')][k]["conversion_id"].v)
       /\ (\A c \in WithJourney : Attributed(c)) => (p_sent' = p_sent /\ store' = store)
      ]_vars

\* C15 witness: a run has ended with status 0 in which one conversion with a
\* journey had a stored row at the start and another had none; one chunk was
\* handed to the Gateway.
C15_Witness ==
    /\ p_exit = 0
    /\ Len(p_chunks) = 1
    /\ Len(p_chunks[1]) = 2
    /\ Len(p_sent) = 1
    /\ Len(p_sent[1]) = 1
    /\ Len(store) = 2
    /\ Len(insert_calls) = 1
    /\ Len(insert_calls[1].results) = 1

\* the run has ended
RunEnded == ppc = "exit"

\* the rows returned for a chunk handed to the Gateway
RowsOfSent(b) ==
    SelectSeq(p_results,
              LAMBDA r : \E k \in 1..Len(p_sent[b]) : p_sent[b][k]["session_id"].v = r.session_id)

\* a chunk that came back with rows, all of them with an ihc in [0, 1]
CleanBatch(b) ==
    /\ RowsOfSent(b) # <<>>
    /\ \A k \in 1..Len(RowsOfSent(b)) : RowsOfSent(b)[k].ihc # "out of range"

\* the run has a conversion with sessions and a well-formed journey
SomeGoodConversion == \E i \in 1..Len(p_conversions) : p_conversions[i].kind = "ok"

\* C17 No single bad unit aborts the run: with nothing wrong outside the data,
\* a run that has a good conversion gets past journey construction whatever
\* the other conversions are; the rows of every batch that came back clean are
\* stored whatever happened to the other batches; and the run then ends with
\* status 0.
C17_NoSingleAbort ==
    (RunEnded /\ p_fault = "none") =>
        /\ SomeGoodConversion => p_chunks # <<>>
        /\ \A b \in 1..Len(p_sent) :
              CleanBatch(b) =>
                  /\ \A k \in 1..Len(RowsOfSent(b)) :
                        \E l \in 1..Len(store) : store[l] = RowsOfSent(b)[k]
                  /\ p_exit = 0

\* journey construction could not produce a journey: the run could not start,
\* the build raised, or no conversion has a well-formed journey
JourneyConstructionFailed ==
    \/ p_fault \in {"dates", "database", "sql_file"}
    \/ BuildRaises(p_conversions)
    \/ \A i \in 1..Len(p_conversions) : p_conversions[i].kind # "ok"

\* the attribution fetch was needed and brought no usable row
AttributionFetchFailed ==
    \/ p_fault = "credentials" /\ p_filtered # <<>>
    \/ /\ p_sent # <<>>
       /\ \A k \in 1..Len(p_results) : p_results[k].ihc = "out of range"

\* the report could not be exported or is empty
ReportExportFailed ==
    \/ p_fault = "export"
    \/ store = <<>>

\* C18 Exit status: the run ends with a non-zero status only if journey
\* construction, the attribution fetch (when needed) or the report export
\* could not produce any usable output; every other run ends with status 0,
\* with the usable rows it fetched stored.
C18_ExitStatus ==
    RunEnded =>
        /\ p_exit = 1 =>
              \/ JourneyConstructionFailed
              \/ AttributionFetchFailed
              \/ ReportExportFailed
        /\ p_exit = 0 =>
              \A k \in 1..Len(p_results) :
                  p_results[k].ihc # "out of range" =>
                      \E l \in 1..Len(store) : store[l] = p_results[k]

(***************************************************************************)
(* Properties of the Report sink.                                          *)
(***************************************************************************)
\* the metric a report row must show for numerator a and denominator b
Metric(a, b) == IF b = 0 THEN NaN ELSE Number(a, b)

\* the field the exported file must show for that metric
MetricField(a, b) ==
    IF b = 0 THEN [kind |-> "empty", n |-> 0, d |-> 0] ELSE Number(a, b)

\* C22 Report metrics: once the export has dealt with division by zero, every
\* row has CPO = cost/ihc and ROAS = ihc_revenue/cost, or the undefined marker
\* where the divisor is 0 (0/0 included), never an infinity; and the file that
\* is written has one row per report row with these metrics, an undefined one
\* as an empty field.
C22_ReportMetrics ==
    /\ rpc \in {"to_csv", "returned"} =>
          /\ Len(report_df) = Len(report_rows)
          /\ \A i \in 1..Len(report_df) :
                /\ report_df[i].CPO = Metric(report_rows[i].cost, report_rows[i].ihc)
                /\ report_df[i].ROAS =
                       Metric(report_rows[i].ihc_revenue, report_rows[i].cost)
    /\ rpc = "returned" =>
          /\ Len(report_csv) = Len(report_rows)
          /\ \A i \in 1..Len(report_csv) :
                /\ report_csv[i].CPO =
                       MetricField(report_rows[i].cost, report_rows[i].ihc)
                /\ report_csv[i].ROAS =
                       MetricField(report_rows[i].ihc_revenue, report_rows[i].cost)

\* a report with a row of cost 0 and a positive ihc_revenue has been exported,
\* with an undefined ROAS in that row
C22_Witness ==
    /\ rpc = "returned"
    /\ \E i \in 1..Len(report_csv) :
          /\ report_rows[i].cost = 0
          /\ report_rows[i].ihc_revenue > 0
          /\ report_df[i].ROAS = NaN
          /\ report_csv[i].ROAS.kind = "empty"

(***************************************************************************)
(* Properties of the sender, continued.                                    *)
(***************************************************************************)
\* the requests the Gateway answered with statusCode 200 or 206 and a
\* non-empty partialFailureErrors array
PartialFailures ==
    {g \in 1..Len(gateway_log) :
        /\ gateway_log[g].response.statusCode \in {200, 206}
        /\ gateway_log[g].response.partialFailureErrors}

\* the position in events of the request that gateway_log[g] records
RequestEvent(g) ==
    CHOOSE k \in RequestPositions :
        Cardinality({l \in RequestPositions : l <= k}) = g

\* C25 Partial remote failure: a request answered with statusCode 200 or 206
\* and partial failures is the last request of its batch (no retry), the
\* response is returned and its rows are added (nothing is raised), and every
\* triple of its value array is a row of the results.
C25_PartialFailureKept ==
    \A g \in PartialFailures :
        LET response == gateway_log[g].response
            k == RequestEvent(g)
        IN  /\ \A h \in (g + 1)..Len(gateway_log) :
                  gateway_log[h].chunk # gateway_log[g].chunk
            /\ k < Len(events)
            /\ events[k + 1] = Event("extend", gateway_log[g].chunk)
            /\ \A t \in 1..Len(response.value) :
                  \E l \in 1..Len(all_results) :
                      all_results[l] = [conv_id |-> response.value[t].conversion_id,
                                        session_id |-> response.value[t].session_id,
                                        ihc |-> response.value[t].ihc]

\* the sender has returned after a batch of two sessions was answered with
\* partial failures and one triple, which is among the results
C25_Witness ==
    /\ SenderReturned
    /\ \E g \in PartialFailures :
          /\ Len(journey_chunks[gateway_log[g].chunk]) = 2
          /\ Len(gateway_log[g].response.value) = 1
          /\ \E l \in 1..Len(all_results) :
                all_results[l].session_id = gateway_log[g].response.value[1].session_id

\* compute_ihc was called with batch i
ComputeIhcCalled(i) == \E k \in 1..Len(events) : events[k] = Event("compute_ihc", i)

\* C29 compute_ihc always ends with a response or an error: whatever
\* max_retries is, a call of compute_ihc that is over has sent at least one
\* request, and its last request was either answered with statusCode 200 or
\* 206 (the response is returned) or failed (the error is raised).
C29_ResponseOrError ==
    \A i \in 1..Len(journey_chunks) :
        ComputeIhcCalled(i) /\ BatchOver(i) =>
            /\ RequestsOf(i) # <<>>
            /\ LET last == RequestsOf(i)[Len(RequestsOf(i))]
               IN  \/ Succeeded(last)
                   \/ FailedRequest(last)
                   \/ last.outcome = "not an object"

(***************************************************************************)
(* Properties of pipeline runs in a row and of a run's connections.        *)
(***************************************************************************)
\* C28 No double-counting in the stored attribution: whatever runs with
\* whatever date ranges have been made over the same source data, no
\* session_id is stored under two different conv_id.
C28_StoredOnce ==
    \A i, j \in 1..Len(store) :
        store[i].session_id = store[j].session_id => store[i].conv_id = store[j].conv_id

\* C30 Connections are closed: when run_pipeline has returned, on whatever
\* path, every database connection opened during the run is closed.
C30_ConnectionsClosed ==
    ppc = "exit" => \A k \in 1..Len(connections) : connections[k] = "closed"

====
